---- MODULE Spec2Model ----
(***************************************************************************)
(* A model of the FinSense backend (src/backend): the retrying narrative   *)
(* client groq_generate_content, the historical-series aggregators         *)
(* get_polygon_history_batch / get_alpha_vantage_history_batch, the        *)
(* throttled upstream clients (news.get_news, rate_limited_request, the    *)
(* /api/polygon_history handler), the /portfolio route with its optimizer *)
(* fallback ladder, calculate_portfolio_metrics, the part of /portfolio    *)
(* that builds the allocations, the recommended actions and the suggested  *)
(* tickers, and the upstream HTTP calls of the helpers.                    *)
(*                                                                         *)
(* External collaborators (the HTTP providers, the Groq service, the       *)
(* PyPortfolioOpt solver) are modelled by their possible outcomes, chosen  *)
(* nondeterministically at each call.                                      *)
(***************************************************************************)
EXTENDS Integers, Sequences, FiniteSets, TLC

VARIABLES
    \* ---- groq_generate_content (app.py 146-175) ----
    g_pc,            \* "idle" | "running" | "returned" | "raised"
    g_retries,       \* parameter retries
    g_delay0,        \* parameter delay as passed by the caller
    g_delay,         \* local variable delay (doubled after each failure)
    g_attempt,       \* loop variable attempt (0-based), = number of iterations begun
    g_calls,         \* number of upstream calls issued (groq_client...create)
    g_outcomes,      \* sequence of the outcomes of the upstream calls
    g_sleeps,        \* sequence of the arguments of time.sleep
    g_result,        \* the returned value
    \* ---- get_polygon_history_batch / get_alpha_vantage_history_batch ----
    agg_pc,          \* "idle" | "running" | "done"
    agg_kind,        \* "polygon" | "alpha_vantage" | "none"
    agg_tickers,     \* parameter tickers (a list)
    from_date,       \* parameter from_date
    to_date,         \* parameter to_date
    agg_i,           \* position of the ticker being processed (1-based)
    agg_attempt,     \* polygon: 0 = full-range request is next, k>0 = reduced attempt k is next
    all_data,        \* local all_data: ticker -> stored series
    agg_log,         \* per position of tickers: what was requested and what came back
    agg_reqs,        \* upstream requests issued by this invocation
    agg_call,        \* how many times the aggregator was invoked
    agg_prev,        \* the table returned by the previous invocation
    \* ---- the /portfolio route (app.py 676-1013) ----
    p_pc,            \* position in the handler
    holdings,        \* the tickers of the rows of the uploaded CSV, in order
    risk_tolerance,  \* form field risk_tolerance
    data,            \* the aggregator's table, later restricted to the valid tickers
    valid_holdings,  \* list valid_holdings (tickers)
    failed_tickers,  \* list failed_tickers
    opt_input,       \* the columns handed to mean_historical_return / sample_cov
    ef,              \* the EfficientFrontier instance `ef` refers to (0 = none yet)
    solves,          \* the solver calls made so far: method, instance, outcome
    weights,         \* which solve produced `weights`
    target_volatility,
    used_volatility,
    warning_vol,
    response,        \* the HTTP response of the route
    \* ---- the throttled clients ----
    t_client,        \* the client exercised: "news" | "wrapper" | "polygon_history"
    now,             \* the wall clock, time.time(), in seconds
    news_last_request_time,  \* news.py global last_request_time
    news_key_valid,  \* whether validate_api_key() holds
    news_pc,         \* per caller: position in news.get_news
    news_query,      \* per caller: parameter query
    news_wake,       \* per caller: when its time.sleep ends
    news_ret,        \* per caller: the value get_news returned last
    news_starts,     \* start times of the last two upstream requests of get_news
    w_delay,         \* rate_limited_request(delay)
    w_last_request_time,     \* the decorator's nonlocal last_request_time
    w_pc,            \* position in wrapper
    w_wake,          \* when wrapper's time.sleep ends
    w_starts,        \* start times of the last two calls of the wrapped function
    h_last_request_time,     \* app.py global last_request_time
    h_response,      \* status of the last /api/polygon_history response (0 = none)
    \* ---- calculate_portfolio_metrics (portfolio.py 88-198) ----
    m_pc,            \* position in the function
    m_holdings,      \* parameter holdings: rows [ticker, amount, price, sector]
    m_override,      \* parameter total_worth_from_csv
    m_i,             \* rows of holdings processed by the loop of line 106
    m_prices,        \* dict prices
    m_sectors,       \* dict sectors
    m_total_value,   \* local total_value
    m_sector_exposure,   \* dict sector_exposure, in hundredths of a percent
    m_score,         \* local diversification_score
    m_hist,          \* the columns of the DataFrame data of line 155
    m_port_volatility,   \* local port_volatility, in thousandths of a percent
    m_result,        \* what the call produced: a result dict or an exception
    \* ---- the /portfolio route after the solver returned (app.py 775-1007) ----
    o_pc,            \* position in this part of the handler
    o_valid_holdings,    \* valid_holdings: rows [ticker, amount, price]
    o_failed_tickers, \* the tickers of the CSV that were left out of valid_holdings
    cleaned_weights, \* ef.clean_weights(): ticker -> weight
    o_total_value,   \* local total_value of line 777
    current_allocation,
    optimized_allocation,
    actions,
    ai_text,         \* the upper-case words of ai_analysis (positions in Words)
    ai_suggested,    \* the set ai_suggested
    ai_todo,         \* the tickers of ai_suggested the loop of line 926 has yet to visit
    per_ticker_pct,
    price_lookups,   \* per ticker: the outcomes of its regularMarketPrice lookups
    o_response,      \* the response of this part
    \* ---- the upstream HTTP calls of the helpers ----
    u_pc,            \* "idle" | "sending" | "waiting" | "returned"
    u_client,        \* the helper that was called
    u_step,          \* which of its requests is the current one
    u_timeout,       \* the timeout argument of the request in flight
    u_waited,        \* seconds the request in flight has been waiting
    u_outcomes,      \* how the requests sent so far ended
    u_result,        \* what the helper returned
    \* ---- the in-memory caches of /fundamental and /recommendations ----
    c_now,           \* time.time(), in ticks of SecondsPerTick seconds
    fundamental_cache,       \* ticker -> [data, timestamp]
    f_pc,            \* "idle" | "computing"
    f_ticker,        \* the ticker of the request that is computing
    f_served,        \* how the last /fundamental request was answered
    recommendations_cache,   \* _recommendations_cache: [data, timestamp]
    r_pc,            \* "idle" | "computing"
    r_now,           \* the local `now` of get_recommendations_cached
    r_served,        \* how the last call of get_recommendations_cached was answered
    \* ---- compute_recommendations ----
    k_pc,            \* "idle" | "stocks" | "news" | "pair" | "prompt" | "done"
    stock_pending,   \* tickers whose stock future as_completed has not yielded yet
    news_pending,    \* tickers whose news future as_completed has not yielded yet
    stocks_data,
    news_data,
    news_results,    \* ticker -> what its news task ended with
    k_result         \* what compute_recommendations returned

gvars == <<g_pc, g_retries, g_delay0, g_delay, g_attempt, g_calls, g_outcomes,
           g_sleeps, g_result>>

avars == <<agg_pc, agg_kind, agg_tickers, from_date, to_date, agg_i, agg_attempt,
           all_data, agg_log, agg_reqs, agg_call, agg_prev>>

pvars == <<p_pc, holdings, risk_tolerance, data, valid_holdings, failed_tickers,
           opt_input, ef, solves, weights, target_volatility, used_volatility,
           warning_vol, response>>

tvars == <<t_client, now, news_last_request_time, news_key_valid, news_pc,
           news_query, news_wake, news_ret, news_starts,
           w_delay, w_last_request_time, w_pc, w_wake, w_starts,
           h_last_request_time, h_response>>

mvars == <<m_pc, m_holdings, m_override, m_i, m_prices, m_sectors, m_total_value,
           m_sector_exposure, m_score, m_hist, m_port_volatility, m_result>>

\* The variables of the functions that the specifications of the first part
\* leave alone.
ovars == <<o_pc, o_valid_holdings, o_failed_tickers, cleaned_weights, o_total_value, current_allocation,
           optimized_allocation, actions, ai_text, ai_suggested, ai_todo,
           per_ticker_pct, price_lookups, o_response>>

uvars == <<u_pc, u_client, u_step, u_timeout, u_waited, u_outcomes, u_result>>

cvars == <<c_now, fundamental_cache, f_pc, f_ticker, f_served, recommendations_cache,
           r_pc, r_now, r_served>>

kvars == <<k_pc, stock_pending, news_pending, stocks_data, news_data, news_results,
           k_result>>

xvars == <<mvars, ovars, uvars, cvars, kvars>>

----------------------------------------------------------------------------
(* Bounds of the model *)

\* largest value of the parameter retries explored
MaxRetries == 3
\* largest value of the parameter delay explored
MaxDelay == 2

\* longest list of tickers handed to an aggregator
MaxBatch == 2
\* dates are 1..MaxDate
MaxDate == 2

\* most rows of an uploaded portfolio CSV
MaxHoldings == 2

\* the clock runs from Epoch to MaxTime
Epoch == 3
MaxTime == 7
\* callers of news.get_news
NumCallers == 2
\* most tickers a narrative suggests
MaxSuggested == 9
\* longest wait for a response that is followed, in seconds
MaxWait == 12
\* seconds between two readings of the clock of the caches
SecondsPerTick == 30
\* last reading of that clock
MaxTicks == 12
\* how many of the top tickers compute_recommendations is run with
MaxTop == 3
\* most recommendations in the array the model's answer holds
MaxRecs == 4

(* Program constants *)

\* news.py
NEWS_CACHE_DURATION == 300
NEWS_RATE_LIMIT_DELAY == 1

\* target_volatility = 0.10 (Conservative) and 0.15 (Moderate), in percent
ConservativeTarget == 10
ModerateTarget == 15

\* for attempt in range(3)  (get_polygon_history_batch)
PolygonAttempts == 3
\* timedelta(days=365*5), in years
FiveYears == 5
\* ten_years_ago = today - timedelta(days=365*10)
TenYears == 10

\* groq_generate_content(..., retries=3, delay=1)
DefaultRetries == 3
DefaultDelay == 1

\* portfolio.py, calculate_portfolio_metrics: the score of line 152 and the
\* thresholds of lines 184 and 186.
SectorPoints == 15
TickerPoints == 5
MaxScore == 100
ConservativeBelow == 10
ModerateBelow == 18

----------------------------------------------------------------------------
(***************************************************************************)
(* groq_generate_content                                                   *)
(***************************************************************************)

\* An error message raised by the Groq client, abstracted to the two facts
\* line 162 reads from it.
ErrorMsgs == [has429 : BOOLEAN, hasRateLimit : BOOLEAN]

\* line 162: '429' in error_msg or 'rate limit' in error_msg.lower()
IsRateLimitMsg(m) == m.has429 \/ m.hasRateLimit

\* len(text) at line 157 raises TypeError when the completion has no content;
\* its message holds neither '429' nor 'rate limit'.
NoneContentMsg == [has429 |-> FALSE, hasRateLimit |-> FALSE]

\* The outcomes of one groq_client.chat.completions.create call.
GroqOutcomes ==
    {[kind |-> "ok", msg |-> NoneContentMsg], [kind |-> "none", msg |-> NoneContentMsg]}
    \cup {[kind |-> "error", msg |-> m] : m \in ErrorMsgs}

\* The exception, if any, that the try body (lines 149-158) raises on an outcome.
GroqRaises(o) == o.kind # "ok"

\* A handler that caught rate-limit errors only.
GroqCatchesRateLimitOnly(m) == IsRateLimitMsg(m)
\* `except Exception as e` (line 159) catches every error of the try body.
GroqCatches(m) == TRUE

\* A linear backoff.
NextDelayPlusOne(d) == d + 1
\* delay *= 2 (lines 166, 173)
NextDelay(d) == d * 2

\* Line 168: a non-rate-limit error returns at once only on the last attempt.
ReturnsOnError(attempt, retries) == attempt = retries - 1

\* The values the function returns.
GroqText(k)    == [kind |-> "text", attempt |-> k, msg |-> NoneContentMsg]
GroqDueTo(m)   == [kind |-> "unable_due_to", attempt |-> 0, msg |-> m]
GroqExhaustedMsg == [kind |-> "unable_after_attempts", attempt |-> 0, msg |-> NoneContentMsg]
GroqNoResult   == [kind |-> "none", attempt |-> 0, msg |-> NoneContentMsg]

GroqIdle ==
    /\ g_pc = "idle" /\ g_retries = 0 /\ g_delay0 = 0 /\ g_delay = 0
    /\ g_attempt = 0 /\ g_calls = 0 /\ g_outcomes = <<>> /\ g_sleeps = <<>>
    /\ g_result = GroqNoResult

\* Entry of groq_generate_content(prompt, ..., retries, delay).
GroqEnter(retries, delay) ==
    /\ g_pc' = "running"
    /\ g_retries' = retries
    /\ g_delay0' = delay
    /\ g_delay' = delay
    /\ g_attempt' = 0
    /\ g_calls' = 0
    /\ g_outcomes' = <<>>
    /\ g_sleeps' = <<>>
    /\ g_result' = GroqNoResult

\* One iteration of `for attempt in range(retries)` (lines 147-173).
GroqAttempt ==
    /\ g_pc = "running"
    /\ g_attempt < g_retries
    /\ \E o \in GroqOutcomes :
        /\ g_calls' = g_calls + 1
        /\ g_outcomes' = Append(g_outcomes, o)
        /\ IF ~GroqRaises(o)
           THEN \* lines 156-158: return text
                /\ g_pc' = "returned"
                /\ g_result' = GroqText(g_attempt + 1)
                /\ UNCHANGED <<g_delay, g_sleeps, g_attempt>>
           ELSE IF ~GroqCatches(o.msg)
           THEN \* the exception leaves the function
                /\ g_pc' = "raised"
                /\ UNCHANGED <<g_result, g_delay, g_sleeps, g_attempt>>
           ELSE IF IsRateLimitMsg(o.msg)
           THEN \* lines 162-167: sleep, double, continue
                /\ g_sleeps' = Append(g_sleeps, g_delay)
                /\ g_delay' = NextDelay(g_delay)
                /\ g_attempt' = g_attempt + 1
                /\ UNCHANGED <<g_pc, g_result>>
           ELSE IF ReturnsOnError(g_attempt, g_retries)
           THEN \* lines 168-170
                /\ g_pc' = "returned"
                /\ g_result' = GroqDueTo(o.msg)
                /\ UNCHANGED <<g_delay, g_sleeps, g_attempt>>
           ELSE \* lines 171-173: sleep, double, next iteration
                /\ g_sleeps' = Append(g_sleeps, g_delay)
                /\ g_delay' = NextDelay(g_delay)
                /\ g_attempt' = g_attempt + 1
                /\ UNCHANGED <<g_pc, g_result>>
    /\ UNCHANGED <<g_retries, g_delay0>>

\* The loop ran out (lines 174-175).
GroqExhausted ==
    /\ g_pc = "running"
    /\ g_attempt >= g_retries
    /\ g_pc' = "returned"
    /\ g_result' = GroqExhaustedMsg
    /\ UNCHANGED <<g_retries, g_delay0, g_delay, g_attempt, g_calls, g_outcomes, g_sleeps>>

\* A caller invokes the helper with some retries and delay.
GroqInvoke ==
    /\ g_pc \in {"idle", "returned", "raised"}
    /\ \E r \in 0..MaxRetries, d \in 1..MaxDelay : GroqEnter(r, d)


----------------------------------------------------------------------------
(***************************************************************************)
(* The historical-series aggregators                                       *)
(***************************************************************************)

Tickers == {"AAPL", "MSFT"}
Dates == 1..MaxDate

\* Dates are one-year periods; period MaxDate ends today, so the route's window
\* one_year_ago..today (lines 710-711) is that period.
Today == MaxDate
OneYearAgo == MaxDate

\* A series is the set of dates it has a close for.
SeriesFamily == {{}} \cup {{d} : d \in Dates} \cup {Dates}

\* What one requests.get(url, timeout=10) can produce: a response with a status
\* and a (possibly empty) series, or an exception (timeout, connection error,
\* malformed payload).
HttpOutcomes ==
    {[kind |-> "http", status |-> 200, series |-> s] : s \in SeriesFamily}
    \cup {[kind |-> "http", status |-> st, series |-> {}] : st \in {429, 500}}
    \cup {[kind |-> "exception", status |-> 0, series |-> {}]}

EmptyTable == [t \in {} |-> {}]

\* all_data[ticker] = series
StoreSeries(all, t, s) == [x \in (DOMAIN all) \cup {t} |-> IF x = t THEN s ELSE all[x]]

\* lines 1128-1130 / 1141-1143: status 200 and a non-empty results list
PolygonHasResults(o) == o.kind = "http" /\ o.status = 200 /\ o.series # {}

\* line 1175: {d: v for d, v in series.items() if from_date <= d.date() <= to_date}
AVFilter(series, from, to) == {d \in series : from <= d /\ d <= to}

\* A store without the test of line 1176.
AVStoresAlways(filtered) == TRUE
\* line 1176: if filtered:
AVStores(filtered) == filtered # {}

\* A reduced range of half the requested span.
ReducedFromHalfSpan(from, to) == to - (to - from) \div 2
\* line 1136: five_years_ago = to_date - timedelta(days=365*5)
ReducedFrom(from, to) == to - FiveYears

NewLogEntry == [full |-> 0, reduced |-> 0, ok |-> {}, after_ok |-> 0, ranges |-> {}]

\* The record of one request in agg_log: which range was asked, and whether the
\* response was a 200 with a non-empty series.
Logged(e, phase, rng, o) ==
    [full     |-> e.full + (IF phase = "full" THEN 1 ELSE 0),
     reduced  |-> e.reduced + (IF phase = "reduced" THEN 1 ELSE 0),
     ok       |-> IF PolygonHasResults(o) THEN e.ok \cup {o.series} ELSE e.ok,
     after_ok |-> e.after_ok + (IF e.ok # {} THEN 1 ELSE 0),
     ranges   |-> e.ranges \cup {rng}]

AggIdle ==
    /\ agg_pc = "idle" /\ agg_kind = "none" /\ agg_tickers = <<>>
    /\ from_date = 0 /\ to_date = 0 /\ agg_i = 0 /\ agg_attempt = 0
    /\ all_data = EmptyTable /\ agg_log = <<>> /\ agg_reqs = 0

\* Entry of either aggregator: all_data = {}
AggEnter(kind, tickers, from, to) ==
    /\ agg_pc' = "running"
    /\ agg_kind' = kind
    /\ agg_tickers' = tickers
    /\ from_date' = from
    /\ to_date' = to
    /\ agg_i' = 1
    /\ agg_attempt' = 0
    /\ all_data' = EmptyTable
    /\ agg_log' = [i \in 1..Len(tickers) |-> NewLogEntry]
    /\ agg_reqs' = 0

\* get_polygon_history_batch: the full-range request of the current ticker
\* (lines 1125-1134, and the outer handler 1158-1160).
PolygonFullRange ==
    /\ agg_pc = "running" /\ agg_kind = "polygon"
    /\ agg_i <= Len(agg_tickers)
    /\ agg_attempt = 0
    /\ \E o \in HttpOutcomes :
        LET t == agg_tickers[agg_i] IN
        /\ agg_log' = [agg_log EXCEPT ![agg_i] = Logged(@, "full", <<from_date, to_date>>, o)]
        /\ agg_reqs' = agg_reqs + 1
        /\ IF o.kind = "exception"
           THEN \* except Exception as e: ... continue
                /\ agg_i' = agg_i + 1
                /\ UNCHANGED <<all_data, agg_attempt>>
           ELSE IF PolygonHasResults(o)
           THEN \* all_data[ticker] = pd.Series(...); continue
                /\ all_data' = StoreSeries(all_data, t, o.series)
                /\ agg_i' = agg_i + 1
                /\ UNCHANGED agg_attempt
           ELSE \* fall through to the reduced-range attempts
                /\ agg_attempt' = 1
                /\ UNCHANGED <<all_data, agg_i>>
    /\ UNCHANGED <<agg_pc, agg_kind, agg_tickers, from_date, to_date, agg_call, agg_prev>>

\* A loop that allows one more attempt.
MoreAttemptsOneExtra(attempt) == attempt < PolygonAttempts + 1
\* line 1138: for attempt in range(3) has another iteration
MoreAttempts(attempt) == attempt < PolygonAttempts

\* get_polygon_history_batch: one iteration of `for attempt in range(3)`
\* (lines 1138-1157).
PolygonReducedRange ==
    /\ agg_pc = "running" /\ agg_kind = "polygon"
    /\ agg_i <= Len(agg_tickers)
    /\ agg_attempt >= 1
    /\ \E o \in HttpOutcomes :
        LET t == agg_tickers[agg_i] IN
        /\ agg_log' = [agg_log EXCEPT ![agg_i] =
                          Logged(@, "reduced", <<ReducedFrom(from_date, to_date), to_date>>, o)]
        /\ agg_reqs' = agg_reqs + 1
        /\ IF PolygonHasResults(o)
           THEN \* store and break
                /\ all_data' = StoreSeries(all_data, t, o.series)
                /\ agg_i' = agg_i + 1
                /\ agg_attempt' = 0
           ELSE IF MoreAttempts(agg_attempt)
           THEN \* empty, 429 (sleep 5), other status, exception (sleep 2): next attempt
                /\ agg_attempt' = agg_attempt + 1
                /\ UNCHANGED <<all_data, agg_i>>
           ELSE \* the loop's else clause: give the ticker up
                /\ agg_i' = agg_i + 1
                /\ agg_attempt' = 0
                /\ UNCHANGED all_data
    /\ UNCHANGED <<agg_pc, agg_kind, agg_tickers, from_date, to_date, agg_call, agg_prev>>

\* get_alpha_vantage_history_batch: the body of the loop for one ticker
\* (lines 1166-1181).
AlphaVantageRequest ==
    /\ agg_pc = "running" /\ agg_kind = "alpha_vantage"
    /\ agg_i <= Len(agg_tickers)
    /\ \E o \in HttpOutcomes :
        LET t == agg_tickers[agg_i]
            filtered == AVFilter(o.series, from_date, to_date)
        IN
        /\ agg_log' = [agg_log EXCEPT ![agg_i] = Logged(@, "full", <<from_date, to_date>>, o)]
        /\ agg_reqs' = agg_reqs + 1
        /\ IF o.kind = "http" /\ o.status = 200 /\ o.series # {} /\ AVStores(filtered)
           THEN all_data' = StoreSeries(all_data, t, filtered)
           ELSE UNCHANGED all_data
        /\ agg_i' = agg_i + 1
    /\ UNCHANGED <<agg_pc, agg_kind, agg_tickers, from_date, to_date, agg_attempt,
                   agg_call, agg_prev>>

\* df = pd.DataFrame(all_data); return df  (lines 1161-1162, 1182-1183)
AggReturn ==
    /\ agg_pc = "running"
    /\ agg_i > Len(agg_tickers)
    /\ agg_pc' = "done"
    /\ UNCHANGED <<agg_kind, agg_tickers, from_date, to_date, agg_i, agg_attempt,
                   all_data, agg_log, agg_reqs, agg_call, agg_prev>>

\* Lists of tickers of length up to n.
RECURSIVE TickerLists(_)
TickerLists(n) ==
    IF n = 0 THEN {<<>>}
    ELSE TickerLists(n - 1) \cup
         {Append(l, t) : l \in {x \in TickerLists(n - 1) : Len(x) = n - 1}, t \in Tickers}

\* A caller invokes one of the two aggregators.
AggInvoke ==
    /\ agg_pc = "idle"
    /\ \E kind \in {"polygon", "alpha_vantage"}, tickers \in TickerLists(MaxBatch),
          from \in Dates, to \in Dates :
        /\ from <= to
        /\ AggEnter(kind, tickers, from, to)
    /\ agg_call' = 1
    /\ agg_prev' = EmptyTable

\* Lines 350-356: the price history of one ticker is asked of
\* get_polygon_history_batch([ticker], ten_years_ago, today, POLYGON_API_KEY).
PriceHistoryInvoke ==
    /\ agg_pc = "idle"
    /\ \E t \in Tickers : AggEnter("polygon", <<t>>, Today - TenYears, Today)
    /\ agg_call' = 1
    /\ agg_prev' = EmptyTable

\* get_polygon_history_batch(tickers, ten_years_ago, today, key) for any batch
\* of tickers.
PolygonBatchInvoke ==
    /\ agg_pc = "idle"
    /\ \E tickers \in TickerLists(MaxBatch) :
          AggEnter("polygon", tickers, Today - TenYears, Today)
    /\ agg_call' = 1
    /\ agg_prev' = EmptyTable

\* The same caller invokes the same aggregator again with the same arguments.
AggInvokeAgain ==
    /\ agg_pc = "done"
    /\ agg_call = 1
    /\ AggEnter(agg_kind, agg_tickers, from_date, to_date)
    /\ agg_call' = 2
    /\ agg_prev' = all_data

----------------------------------------------------------------------------
(***************************************************************************)
(* The /portfolio route                                                    *)
(***************************************************************************)

RiskTolerances == {"Conservative", "Moderate", "Aggressive"}

NoVol == [kind |-> "none", pct |-> 0]
TargetVol(pct) == [kind |-> "target", pct |-> pct]
\* line 758: min_vol.get('fun', list(min_vol.values())[0]) of the weights that
\* min_volatility() returns
MinVolValue == [kind |-> "first_value_of_min_volatility_result", pct |-> 0]

\* The warning strings of lines 765 and 769.
NoWarning == [kind |-> "none", tickers |-> <<>>]
WarnUsedMinVol == [kind |-> "too_low_used_minimum_achievable_volatility", tickers |-> <<>>]
WarnUsedMaxSharpe == [kind |-> "could_not_achieve_using_maximum_sharpe", tickers |-> <<>>]
\* line 1003
WarnFailed(failed) == [kind |-> "could_not_fetch_data_excluded", tickers |-> failed]

NoWeights == [method |-> "none", instance |-> 0]
NoResponse == [status |-> 0, error |-> "none", warning |-> NoWarning,
               volatility_warning |-> NoWarning, has_volatility_warning |-> FALSE,
               ai_analysis |-> GroqNoResult]

\* The generic handler of lines 1008-1013.
Error500 == [NoResponse EXCEPT !.status = 500, !.error = "Error optimizing portfolio"]
\* line 724
Error400NoValid == [NoResponse EXCEPT !.status = 400,
                                      !.error = "No valid tickers found for optimization"]

\* lines 742-748
TargetOf(risk) ==
    IF risk = "Conservative" THEN TargetVol(ConservativeTarget)
    ELSE IF risk = "Aggressive" THEN NoVol
    ELSE TargetVol(ModerateTarget)

\* A test that takes every ticker for valid.
HasDataAlways(table, t) == TRUE
\* line 718: ticker in data.columns and not data[ticker].dropna().empty
HasData(table, t) == t \in DOMAIN table /\ table[t] # {}

\* lines 714-721: the holdings kept, in order
ValidOf(hs, table) == SelectSeq(hs, LAMBDA t : HasData(table, t))
FailedOf(hs, table) == SelectSeq(hs, LAMBDA t : ~HasData(table, t))

\* line 723: if not valid_holdings: return 400
Refuses(valid) == Len(valid) = 0

SeqToSet(q) == {q[i] : i \in 1..Len(q)}

\* lines 1002-1003: the failed-ticker message replaces response['warning']
ResponseWarning(failed, wv) == IF failed # <<>> THEN WarnFailed(failed) ELSE wv

\* A volatility warning dropped when the failed-ticker message is set.
HasVolatilityWarningUnlessFailed(failed, wv) == wv # NoWarning /\ failed = <<>>
\* lines 1004-1005: if warning_vol: response['volatility_warning'] = warning_vol
HasVolatilityWarning(failed, wv) == wv # NoWarning

PortfolioIdle ==
    /\ p_pc = "idle" /\ holdings = <<>> /\ risk_tolerance = "Moderate"
    /\ data = EmptyTable /\ valid_holdings = <<>> /\ failed_tickers = <<>>
    /\ opt_input = {} /\ ef = 0 /\ solves = <<>> /\ weights = NoWeights
    /\ target_volatility = NoVol /\ used_volatility = NoVol
    /\ warning_vol = NoWarning /\ response = NoResponse

Solve(method, instance, outcome) ==
    Append(solves, [method |-> method, instance |-> instance, outcome |-> outcome])

\* An exception that no inner handler catches reaches lines 1008-1013.
Raise500 ==
    /\ p_pc' = "done"
    /\ response' = Error500

\* Lines 679-712: the CSV is read and the aggregator is called with the tickers
\* of its rows.
PortfolioStart ==
    /\ p_pc = "idle"
    /\ agg_pc = "idle"
    /\ \E hs \in TickerLists(MaxHoldings), risk \in RiskTolerances :
        /\ holdings' = hs
        /\ risk_tolerance' = risk
        /\ AggEnter("alpha_vantage", hs, OneYearAgo, Today)
    /\ p_pc' = "aggregating"
    /\ UNCHANGED <<data, valid_holdings, failed_tickers, opt_input, ef, solves, weights,
                   target_volatility, used_volatility, warning_vol, response>>
    /\ UNCHANGED <<agg_call, agg_prev>>

\* Lines 712-724: the table comes back, the holdings are split.
PortfolioClassify ==
    /\ p_pc = "aggregating"
    /\ agg_pc = "done"
    /\ data' = all_data
    /\ valid_holdings' = ValidOf(holdings, all_data)
    /\ failed_tickers' = FailedOf(holdings, all_data)
    /\ IF Refuses(ValidOf(holdings, all_data))
       THEN /\ p_pc' = "done"
            /\ response' = Error400NoValid
       ELSE /\ p_pc' = "estimate"
            /\ UNCHANGED response
    \* the aggregator's locals are gone
    /\ agg_pc' = "idle" /\ agg_kind' = "none" /\ agg_tickers' = <<>>
    /\ from_date' = 0 /\ to_date' = 0 /\ agg_i' = 0 /\ agg_attempt' = 0
    /\ all_data' = EmptyTable /\ agg_log' = <<>> /\ agg_reqs' = 0
    /\ UNCHANGED <<agg_call, agg_prev>>
    /\ UNCHANGED <<holdings, risk_tolerance, opt_input, ef, solves, weights,
                   target_volatility, used_volatility, warning_vol>>

\* Lines 727-748: data = data[tickers]; mu, S; ef = EfficientFrontier(mu, S);
\* the branch on risk_tolerance, which for Aggressive already solves max_sharpe.
PortfolioEstimate ==
    /\ p_pc = "estimate"
    /\ data' = [t \in SeqToSet(valid_holdings) |-> data[t]]
    /\ opt_input' = SeqToSet(valid_holdings)
    /\ ef' = 1
    /\ target_volatility' = TargetOf(risk_tolerance)
    /\ IF risk_tolerance = "Aggressive"
       THEN \E out \in {"ok", "fail"} :
              /\ solves' = Solve("max_sharpe", 1, out)
              /\ IF out = "ok"
                 THEN /\ weights' = [method |-> "max_sharpe", instance |-> 1]
                      /\ p_pc' = "max_sharpe"
                      /\ UNCHANGED response
                 ELSE /\ Raise500
                      /\ UNCHANGED weights
       ELSE /\ p_pc' = "efficient_risk"
            /\ UNCHANGED <<solves, weights, response>>
    /\ UNCHANGED <<holdings, risk_tolerance, valid_holdings, failed_tickers,
                   used_volatility, warning_vol>>

\* Lines 750-755: weights = ef.efficient_risk(target_volatility)
PortfolioEfficientRisk ==
    /\ p_pc = "efficient_risk"
    /\ \E out \in {"ok", "fail"} :
        /\ solves' = Solve("efficient_risk", ef, out)
        /\ IF out = "ok"
           THEN /\ weights' = [method |-> "efficient_risk", instance |-> ef]
                /\ used_volatility' = target_volatility
                /\ warning_vol' = NoWarning
                /\ p_pc' = "build"
           ELSE /\ p_pc' = "min_volatility"
                /\ UNCHANGED <<weights, used_volatility, warning_vol>>
    /\ UNCHANGED <<holdings, risk_tolerance, data, valid_holdings, failed_tickers,
                   opt_input, ef, target_volatility, response>>

\* Lines 756-761: min_vol = ef.min_volatility() on the same instance, outside any
\* try; then a new instance.
PortfolioMinVolatility ==
    /\ p_pc = "min_volatility"
    /\ \E out \in {"ok", "fail"} :
        /\ solves' = Solve("min_volatility", ef, out)
        /\ IF out = "ok"
           THEN /\ ef' = ef + 1
                /\ p_pc' = "efficient_risk_min"
                /\ UNCHANGED response
           ELSE /\ Raise500
                /\ UNCHANGED ef
    /\ UNCHANGED <<holdings, risk_tolerance, data, valid_holdings, failed_tickers,
                   opt_input, weights, target_volatility, used_volatility, warning_vol>>

\* Lines 762-766: weights = ef.efficient_risk(min_vol_value)
PortfolioEfficientRiskMin ==
    /\ p_pc = "efficient_risk_min"
    /\ \E out \in {"ok", "fail"} :
        /\ solves' = Solve("efficient_risk", ef, out)
        /\ IF out = "ok"
           THEN /\ weights' = [method |-> "efficient_risk_min", instance |-> ef]
                /\ used_volatility' = MinVolValue
                /\ warning_vol' = WarnUsedMinVol
                /\ p_pc' = "build"
           ELSE /\ p_pc' = "max_sharpe_fallback"
                /\ UNCHANGED <<weights, used_volatility, warning_vol>>
    /\ UNCHANGED <<holdings, risk_tolerance, data, valid_holdings, failed_tickers,
                   opt_input, ef, target_volatility, response>>

\* Lines 766-769: weights = ef.max_sharpe() in the second handler
PortfolioMaxSharpeFallback ==
    /\ p_pc = "max_sharpe_fallback"
    /\ \E out \in {"ok", "fail"} :
        /\ solves' = Solve("max_sharpe", ef, out)
        /\ IF out = "ok"
           THEN /\ weights' = [method |-> "max_sharpe", instance |-> ef]
                /\ used_volatility' = NoVol
                /\ warning_vol' = WarnUsedMaxSharpe
                /\ p_pc' = "build"
                /\ UNCHANGED response
           ELSE /\ Raise500
                /\ UNCHANGED <<weights, used_volatility, warning_vol>>
    /\ UNCHANGED <<holdings, risk_tolerance, data, valid_holdings, failed_tickers,
                   opt_input, ef, target_volatility>>

\* Lines 770-773: target_volatility is None: weights = ef.max_sharpe()
PortfolioMaxSharpe ==
    /\ p_pc = "max_sharpe"
    /\ \E out \in {"ok", "fail"} :
        /\ solves' = Solve("max_sharpe", ef, out)
        /\ IF out = "ok"
           THEN /\ weights' = [method |-> "max_sharpe", instance |-> ef]
                /\ used_volatility' = NoVol
                /\ warning_vol' = NoWarning
                /\ p_pc' = "build"
                /\ UNCHANGED response
           ELSE /\ Raise500
                /\ UNCHANGED <<weights, used_volatility, warning_vol>>
    /\ UNCHANGED <<holdings, risk_tolerance, data, valid_holdings, failed_tickers,
                   opt_input, ef, target_volatility>>

\* Lines 775-906: the allocations and actions are built and the narrative is
\* asked of groq_generate_content(groq_prompt, max_tokens=1000, temperature=0.2).
PortfolioBuild ==
    /\ p_pc = "build"
    /\ g_pc = "idle"
    /\ GroqEnter(DefaultRetries, DefaultDelay)
    /\ p_pc' = "ai_analysis"
    /\ UNCHANGED <<holdings, risk_tolerance, data, valid_holdings, failed_tickers,
                   opt_input, ef, solves, weights, target_volatility, used_volatility,
                   warning_vol, response>>

\* Lines 906-1007: the narrative comes back and the response is assembled.
PortfolioRespond ==
    /\ p_pc = "ai_analysis"
    /\ g_pc \in {"returned", "raised"}
    /\ p_pc' = "done"
    /\ response' =
         IF g_pc = "raised" THEN Error500
         ELSE [status |-> 200,
               error |-> "none",
               warning |-> ResponseWarning(failed_tickers, warning_vol),
               volatility_warning |->
                   IF HasVolatilityWarning(failed_tickers, warning_vol)
                   THEN warning_vol ELSE NoWarning,
               has_volatility_warning |-> HasVolatilityWarning(failed_tickers, warning_vol),
               ai_analysis |-> g_result]
    /\ UNCHANGED <<holdings, risk_tolerance, data, valid_holdings, failed_tickers,
                   opt_input, ef, solves, weights, target_volatility, used_volatility,
                   warning_vol>>

----------------------------------------------------------------------------
(***************************************************************************)
(* The throttled clients: news.get_news, rate_limited_request, and the     *)
(* /api/polygon_history handler                                            *)
(***************************************************************************)

Callers == 1..NumCallers

\* The last two entries of a list of request start times, with t added.
Started(starts, t) ==
    IF Len(starts) < 2 THEN Append(starts, t) ELSE <<starts[2], t>>

\* cache_key = f"{query}_{current_time // NEWS_CACHE_DURATION}" (news.py line 45)
NewsCacheKey(query, current_time) == <<query, current_time \div NEWS_CACHE_DURATION>>

\* get_cached_news (news.py lines 34-37): an lru_cache around `return []`.
\* Whatever the key, and whether or not the cache holds it, the value is the
\* empty list, so the cache's contents are no part of the state.
GetCachedNews(key, timestamp) == <<>>

\* The values get_news returns: the fetched list, or the demo list.
NewsNone == [kind |-> "none", query |-> ""]
NewsDemo == [kind |-> "demo", query |-> ""]
NewsList(query) == [kind |-> "news_list", query |-> query]

\* What requests.get(url, timeout=10) and the parsing of its body can produce
\* in get_news.
NewsOutcomes == {"exception", "401", "429", "other_status", "bad_json", "status_error", "ok"}

\* last_request_time = time.time() (news.py line 66) runs only when requests.get
\* returned.
NewsLastAfter(outcome, last, t) == IF outcome = "exception" THEN last ELSE t

\* time.sleep(NEWS_RATE_LIMIT_DELAY - time_since_last) (news.py lines 56-58)
SleepFor(delay, time_since_last) ==
    IF time_since_last < delay THEN delay - time_since_last ELSE 0

ThrottleIdle ==
    /\ now = Epoch
    /\ news_last_request_time = 0
    /\ news_pc = [th \in Callers |-> "idle"]
    /\ news_query = [th \in Callers |-> ""]
    /\ news_wake = [th \in Callers |-> 0]
    /\ news_ret = [th \in Callers |-> NewsNone]
    /\ news_starts = <<>>
    /\ w_last_request_time = 0
    /\ w_pc = "idle"
    /\ w_wake = 0
    /\ w_starts = <<>>
    /\ h_last_request_time = 0
    /\ h_response = 0

\* Time passes.
Tick ==
    /\ now < MaxTime
    /\ now' = now + 1
    /\ UNCHANGED <<t_client, news_last_request_time, news_key_valid, news_pc,
                   news_query, news_wake, news_ret, news_starts,
                   w_delay, w_last_request_time, w_pc, w_wake, w_starts,
                   h_last_request_time, h_response>>

\* news.get_news lines 41-52: the cache lookup, which never hits, and the key check.
NewsEnter(th) ==
    /\ t_client = "news"
    /\ news_pc[th] = "idle"
    /\ \E q \in Tickers :
        LET key == NewsCacheKey(q, now)
            cached_news == GetCachedNews(key, now)
        IN
        /\ news_query' = [news_query EXCEPT ![th] = q]
        /\ IF cached_news # <<>>
           THEN \* return cached_news
                /\ news_ret' = [news_ret EXCEPT ![th] = [kind |-> "cached", query |-> q]]
                /\ UNCHANGED news_pc
           ELSE IF ~news_key_valid
           THEN \* return get_demo_news()
                /\ news_ret' = [news_ret EXCEPT ![th] = NewsDemo]
                /\ UNCHANGED news_pc
           ELSE /\ news_pc' = [news_pc EXCEPT ![th] = "throttle"]
                /\ news_ret' = [news_ret EXCEPT ![th] = NewsNone]
    /\ UNCHANGED <<t_client, now, news_last_request_time, news_key_valid, news_wake,
                   news_starts, w_delay, w_last_request_time, w_pc, w_wake, w_starts,
                   h_last_request_time, h_response>>

\* news.get_news lines 56-58: the rate limiting.
NewsThrottle(th) ==
    /\ news_pc[th] = "throttle"
    /\ LET d == SleepFor(NEWS_RATE_LIMIT_DELAY, now - news_last_request_time) IN
        IF d > 0
        THEN /\ news_pc' = [news_pc EXCEPT ![th] = "sleeping"]
             /\ news_wake' = [news_wake EXCEPT ![th] = now + d]
        ELSE /\ news_pc' = [news_pc EXCEPT ![th] = "ready"]
             /\ UNCHANGED news_wake
    /\ UNCHANGED <<t_client, now, news_last_request_time, news_key_valid,
                   news_query, news_ret, news_starts,
                   w_delay, w_last_request_time, w_pc, w_wake, w_starts,
                   h_last_request_time, h_response>>

\* time.sleep returns once the time has passed.
NewsWake(th) ==
    /\ news_pc[th] = "sleeping"
    /\ now >= news_wake[th]
    /\ news_pc' = [news_pc EXCEPT ![th] = "ready"]
    /\ UNCHANGED <<t_client, now, news_last_request_time, news_key_valid,
                   news_query, news_wake, news_ret, news_starts,
                   w_delay, w_last_request_time, w_pc, w_wake, w_starts,
                   h_last_request_time, h_response>>

\* news.get_news line 65: requests.get(url, timeout=10) is sent.
NewsRequestStart(th) ==
    /\ news_pc[th] = "ready"
    /\ news_pc' = [news_pc EXCEPT ![th] = "requesting"]
    /\ news_starts' = Started(news_starts, now)
    /\ UNCHANGED <<t_client, now, news_last_request_time, news_key_valid,
                   news_query, news_wake, news_ret,
                   w_delay, w_last_request_time, w_pc, w_wake, w_starts,
                   h_last_request_time, h_response>>

\* news.get_news lines 65-112: the request ends and the result is returned.
NewsRequestEnd(th) ==
    /\ news_pc[th] = "requesting"
    /\ \E o \in NewsOutcomes :
        /\ news_last_request_time' = NewsLastAfter(o, news_last_request_time, now)
        /\ IF o = "ok"
           THEN \* cache_clear(); get_cached_news(cache_key, current_time); return news_list
                news_ret' = [news_ret EXCEPT ![th] = NewsList(news_query[th])]
           ELSE \* return get_demo_news()
                news_ret' = [news_ret EXCEPT ![th] = NewsDemo]
    /\ news_pc' = [news_pc EXCEPT ![th] = "idle"]
    /\ UNCHANGED <<t_client, now, news_key_valid, news_query,
                   news_wake, news_starts, w_delay, w_last_request_time, w_pc, w_wake,
                   w_starts, h_last_request_time, h_response>>

\* rate_limited_request.wrapper, app.py lines 77-80
WrapperEnter ==
    /\ t_client = "wrapper"
    /\ w_pc = "idle"
    /\ LET d == SleepFor(w_delay, now - w_last_request_time) IN
        IF d > 0
        THEN /\ w_pc' = "sleeping"
             /\ w_wake' = now + d
        ELSE /\ w_pc' = "ready"
             /\ UNCHANGED w_wake
    /\ UNCHANGED <<t_client, now, news_last_request_time, news_key_valid,
                   news_pc, news_query, news_wake, news_ret,
                   news_starts, w_delay, w_last_request_time, w_starts,
                   h_last_request_time, h_response>>

WrapperWake ==
    /\ w_pc = "sleeping"
    /\ now >= w_wake
    /\ w_pc' = "ready"
    /\ UNCHANGED <<t_client, now, news_last_request_time, news_key_valid,
                   news_pc, news_query, news_wake, news_ret,
                   news_starts, w_delay, w_last_request_time, w_wake, w_starts,
                   h_last_request_time, h_response>>

\* line 82: result = func(*args, **kwargs) begins
WrapperCall ==
    /\ w_pc = "ready"
    /\ w_pc' = "calling"
    /\ w_starts' = Started(w_starts, now)
    /\ UNCHANGED <<t_client, now, news_last_request_time, news_key_valid,
                   news_pc, news_query, news_wake, news_ret,
                   news_starts, w_delay, w_last_request_time, w_wake,
                   h_last_request_time, h_response>>

\* lines 82-86: func returns (last_request_time = time.time()) or raises (raise e)
WrapperReturn ==
    /\ w_pc = "calling"
    /\ \E o \in {"ok", "exception"} :
        w_last_request_time' = IF o = "ok" THEN now ELSE w_last_request_time
    /\ w_pc' = "idle"
    /\ UNCHANGED <<t_client, now, news_last_request_time, news_key_valid,
                   news_pc, news_query, news_wake, news_ret,
                   news_starts, w_delay, w_wake, w_starts,
                   h_last_request_time, h_response>>

\* /api/polygon_history, app.py lines 1186-1196.  get_cached_market_data is
\* neither defined nor imported in app.py, so the lookup of line 1196, which is
\* outside the try of line 1204, ends the request before any upstream call.
PolygonHistoryHandler ==
    /\ t_client = "polygon_history"
    /\ \E has_ticker \in BOOLEAN :
        h_response' = IF has_ticker THEN 500 ELSE 400
    /\ UNCHANGED <<t_client, now, news_last_request_time, news_key_valid,
                   news_pc, news_query, news_wake, news_ret,
                   news_starts, w_delay, w_last_request_time, w_pc, w_wake, w_starts,
                   h_last_request_time>>

(***************************************************************************)
(* calculate_portfolio_metrics (portfolio.py 88-198).  Money is in whole   *)
(* units, so the round(total_value, 2) of lines 167 and 192 leaves it as   *)
(* it is; percentages are kept in hundredths of a percent (the two         *)
(* decimals of round(.., 2)) and port_volatility in thousandths.           *)
(***************************************************************************)

\* h.get('price'): absent (None, '' or NaN) or a number.
NoPrice == [given |-> FALSE, val |-> 0]
CsvPrice(v) == [given |-> TRUE, val |-> v]
\* The amounts and the prices explored.
AmountSamples == {1, 2}
PriceSamples == {0, 2}
CsvPrices == {NoPrice} \cup {CsvPrice(v) : v \in PriceSamples \ {0}}

\* Lines 123-131: the sector of a ticker is h['sector'] when the row carries
\* one, else info.get('sector', 'Other') or 'Other', and 'Other' when the
\* lookup raises.
ResolvedSectors == {"Technology", "Other"}

\* Lines 115-121: regularMarketPrice, 0 when it is None or the lookup raises.
LookupPrices == PriceSamples \cup {0}

HoldingRows == [ticker : Tickers, amount : AmountSamples, price : CsvPrices]

\* Lists of rows of length up to n.
RECURSIVE HoldingLists(_)
HoldingLists(n) ==
    IF n = 0 THEN {<<>>}
    ELSE HoldingLists(n - 1) \cup
         {Append(l, h) : l \in {x \in HoldingLists(n - 1) : Len(x) = n - 1},
                         h \in HoldingRows}

\* total_worth_from_csv: None, a number, or something float() rejects.
OverrideSamples == {0 - 1, 0, 3}
NoOverride == [kind |-> "none", val |-> 0]
Overrides == {NoOverride, [kind |-> "text", val |-> 0]} \cup
             {[kind |-> "number", val |-> v] : v \in OverrideSamples}

EmptyDict == [t \in {} |-> 0]
DictSet(d, k, v) == [x \in (DOMAIN d) \cup {k} |-> IF x = k THEN v ELSE d[x]]

\* Line 100: tickers = [h['ticker'] for h in holdings].
TickersOf(hs) == [i \in 1..Len(hs) |-> hs[i].ticker]

\* Line 101: amounts = {h['ticker']: float(h['amount']) for h in holdings};
\* a later row of the same ticker replaces the earlier one.
RECURSIVE AmountsOf(_)
AmountsOf(hs) ==
    IF hs = <<>> THEN EmptyDict
    ELSE DictSet(AmountsOf(SubSeq(hs, 1, Len(hs) - 1)), hs[Len(hs)].ticker,
                 hs[Len(hs)].amount)

\* prices[t] * amounts[t]
ValueOf(t, prices, amounts) == prices[t] * amounts[t]

\* Line 134: sum(prices[t] * amounts[t] for t in tickers).
RECURSIVE SumValues(_, _, _)
SumValues(tickers, prices, amounts) ==
    IF tickers = <<>> THEN 0
    ELSE ValueOf(tickers[1], prices, amounts) + SumValues(Tail(tickers), prices, amounts)

\* Lines 136-140: float(total_worth_from_csv) replaces the sum whenever it
\* does not raise.
ApplyOverride(sum, o) == IF o.kind = "number" THEN o.val ELSE sum

\* Lines 141-142: if total_value == 0: total_value = 1.
AvoidZero(total) == IF total = 0 THEN 1 ELSE total

\* Lines 145-148: sector_totals.
RECURSIVE SectorTotals(_, _, _, _)
SectorTotals(tickers, prices, amounts, sectors) ==
    IF tickers = <<>> THEN EmptyDict
    ELSE LET rest == SectorTotals(SubSeq(tickers, 1, Len(tickers) - 1), prices,
                                  amounts, sectors)
             t    == tickers[Len(tickers)]
             k    == sectors[t]
             old  == IF k \in DOMAIN rest THEN rest[k] ELSE 0
         IN DictSet(rest, k, old + ValueOf(t, prices, amounts))

\* round(n / d) to the nearest integer, a tie going to the even neighbour.
RoundDiv(n, d) ==
    LET nn == IF d < 0 THEN 0 - n ELSE n
        dd == IF d < 0 THEN 0 - d ELSE d
        q  == nn \div dd
        r  == nn % dd
    IN IF 2 * r < dd THEN q
       ELSE IF 2 * r > dd THEN q + 1
       ELSE IF q % 2 = 0 THEN q ELSE q + 1

\* Line 149: round(100 * v / total_value, 2), in hundredths of a percent.
ExposurePct(v, total) == RoundDiv(100 * 100 * v, total)
SectorExposure(totals, total) == [k \in DOMAIN totals |-> ExposurePct(totals[k], total)]

\* Line 152.
RangeOf(d) == {d[k] : k \in DOMAIN d}
Min(a, b) == IF a < b THEN a ELSE b
ScoreOf(nsectors, ntickers) ==
    Min(MaxScore, nsectors * SectorPoints + ntickers * TickerPoints)
\* A variant that leaves out the holdings whose price is 0.
DiversificationScoreValuedOnly(sectors, tickers, prices) ==
    ScoreOf(Cardinality(RangeOf(sectors)),
            Cardinality({i \in 1..Len(tickers) : prices[tickers[i]] # 0}))
DiversificationScore(sectors, tickers, prices) ==
    ScoreOf(Cardinality(RangeOf(sectors)), Len(tickers))

\* Lines 176-181: the annualized volatility, in thousandths of a percent.  It
\* is 0 when every weight is 0 and otherwise whatever the histories give.
Volatilities == {0, 9994, 9996, 10000, 17996, 18000, 25000}
PortVolatilities(tickers, prices, amounts) ==
    IF \A i \in 1..Len(tickers) : ValueOf(tickers[i], prices, amounts) = 0
    THEN {0} ELSE Volatilities

\* Lines 184-189, on port_volatility as computed.
RiskLevel(v) ==
    IF v < ConservativeBelow * 1000 THEN "Conservative"
    ELSE IF v < ModerateBelow * 1000 THEN "Moderate"
    ELSE "Aggressive"

\* round(port_volatility, 2), in hundredths of a percent.
ReportedVolatility(v) == RoundDiv(v, 10)

\* Lines 180-181: mu.loc[tickers] and S.loc[tickers, tickers] raise KeyError
\* when a ticker of the holdings is not a column of data.
LocRaises(tickers, hist) == \E i \in 1..Len(tickers) : tickers[i] \notin hist

MetricsNoResult == [kind |-> "none", total_value |-> 0, expected_return |-> "none",
                    risk_level |-> "none", sector_exposure |-> EmptyDict,
                    diversification_score |-> 0, volatility |-> 0]
\* The dict of lines 91-98.
MetricsEmptyResult == [kind |-> "result", total_value |-> 0, expected_return |-> "zero",
                       risk_level |-> "N/A", sector_exposure |-> EmptyDict,
                       diversification_score |-> 0, volatility |-> 0]
MetricsKeyError == [MetricsNoResult EXCEPT !.kind = "KeyError"]

MetricsIdle ==
    /\ m_pc = "idle"
    /\ m_holdings = <<>>
    /\ m_override = NoOverride
    /\ m_i = 0
    /\ m_prices = EmptyDict
    /\ m_sectors = EmptyDict
    /\ m_total_value = 0
    /\ m_sector_exposure = EmptyDict
    /\ m_score = 0
    /\ m_hist = {}
    /\ m_port_volatility = 0
    /\ m_result = MetricsNoResult

\* A caller invokes calculate_portfolio_metrics(holdings, total_worth_from_csv).
MetricsInvoke ==
    /\ m_pc = "idle"
    /\ \E hs \in HoldingLists(MaxHoldings), o \in Overrides :
        /\ m_holdings' = hs
        /\ m_override' = o
    /\ m_pc' = "entered"
    /\ UNCHANGED <<m_i, m_prices, m_sectors, m_total_value, m_sector_exposure,
                   m_score, m_hist, m_port_volatility, m_result>>

\* Lines 90-98: no holdings.
MetricsEmpty ==
    /\ m_pc = "entered"
    /\ m_holdings = <<>>
    /\ m_result' = MetricsEmptyResult
    /\ m_pc' = "done"
    /\ UNCHANGED <<m_holdings, m_override, m_i, m_prices, m_sectors, m_total_value,
                   m_sector_exposure, m_score, m_hist, m_port_volatility>>

\* Lines 106-131: one iteration of the loop over holdings; the price and the
\* sector come from the row or from the lookup.
MetricsResolve ==
    /\ m_pc = "entered"
    /\ m_i < Len(m_holdings)
    /\ LET h == m_holdings[m_i + 1] IN
        /\ \E price \in (IF h.price.given THEN {h.price.val} ELSE LookupPrices) :
              m_prices' = DictSet(m_prices, h.ticker, price)
        /\ \E sector \in ResolvedSectors :
              m_sectors' = DictSet(m_sectors, h.ticker, sector)
    /\ m_i' = m_i + 1
    /\ UNCHANGED <<m_pc, m_holdings, m_override, m_total_value, m_sector_exposure,
                   m_score, m_hist, m_port_volatility, m_result>>

\* Lines 133-152: total_value, sector_exposure, diversification_score.
MetricsTotal ==
    /\ m_pc = "entered"
    /\ m_holdings # <<>>
    /\ m_i = Len(m_holdings)
    /\ LET tickers == TickersOf(m_holdings)
           amounts == AmountsOf(m_holdings)
           total   == AvoidZero(ApplyOverride(SumValues(tickers, m_prices, amounts),
                                              m_override))
       IN /\ m_total_value' = total
          /\ m_sector_exposure' =
                SectorExposure(SectorTotals(tickers, m_prices, amounts, m_sectors), total)
          /\ m_score' = DiversificationScore(m_sectors, tickers, m_prices)
    /\ m_pc' = "totalled"
    /\ UNCHANGED <<m_holdings, m_override, m_i, m_prices, m_sectors, m_hist,
                   m_port_volatility, m_result>>

\* Lines 155-163: the histories; a ticker becomes a column of data when its
\* history is not empty and the lookup does not raise.
MetricsHistory ==
    /\ m_pc = "totalled"
    /\ \E cols \in SUBSET {m_holdings[i].ticker : i \in 1..Len(m_holdings)} :
          m_hist' = cols
    /\ m_pc' = "history"
    /\ UNCHANGED <<m_holdings, m_override, m_i, m_prices, m_sectors, m_total_value,
                   m_sector_exposure, m_score, m_port_volatility, m_result>>

\* Lines 164-173: data.empty.
MetricsFallback ==
    /\ m_pc = "history"
    /\ m_hist = {}
    /\ m_result' = [kind |-> "result", total_value |-> m_total_value,
                    expected_return |-> "zero", risk_level |-> "N/A",
                    sector_exposure |-> m_sector_exposure,
                    diversification_score |-> m_score, volatility |-> 0]
    /\ m_pc' = "done"
    /\ UNCHANGED <<m_holdings, m_override, m_i, m_prices, m_sectors, m_total_value,
                   m_sector_exposure, m_score, m_hist, m_port_volatility>>

\* Lines 175-198: weights, expected return, volatility, risk level.
MetricsRisk ==
    /\ m_pc = "history"
    /\ m_hist # {}
    /\ LET tickers == TickersOf(m_holdings) IN
       IF LocRaises(tickers, m_hist)
       THEN /\ m_result' = MetricsKeyError
            /\ m_pc' = "raised"
            /\ UNCHANGED m_port_volatility
       ELSE /\ \E v \in PortVolatilities(tickers, m_prices, AmountsOf(m_holdings)) :
                /\ m_port_volatility' = v
                /\ m_result' = [kind |-> "result", total_value |-> m_total_value,
                                expected_return |-> "computed",
                                risk_level |-> RiskLevel(v),
                                sector_exposure |-> m_sector_exposure,
                                diversification_score |-> m_score,
                                volatility |-> ReportedVolatility(v)]
            /\ m_pc' = "done"
    /\ UNCHANGED <<m_holdings, m_override, m_i, m_prices, m_sectors, m_total_value,
                   m_sector_exposure, m_score, m_hist>>

----------------------------------------------------------------------------
(***************************************************************************)
(* The /portfolio route after the solver returned (app.py 775-1007): the   *)
(* current and the optimized allocation, the recommended actions, the      *)
(* tickers suggested by the narrative, the response.  Percentages are in   *)
(* hundredths of a percent, the cleaned weights in units of 0.00001 (the   *)
(* five decimals of clean_weights).                                        *)
(***************************************************************************)

\* The rows of valid_holdings explored (ticker, amount, price), without a
\* repeated ticker.
ValidRows == [ticker : Tickers, amount : {1}, price : {0, 1}]
ValidHoldingLists ==
    {<<r>> : r \in ValidRows} \cup
    {<<r1, r2>> : r1 \in {r \in ValidRows : r.ticker = "AAPL"},
                  r2 \in {r \in ValidRows : r.ticker = "MSFT"}}

\* ef.clean_weights(): a weight per column of data, the weights summing to 1.
WeightUnit == 100000
WeightSamples == {0, 49000, 49010, 50000, 51000, WeightUnit}
CleanedWeights(hs) ==
    IF Len(hs) = 1 THEN {[t \in {hs[1].ticker} |-> WeightUnit]}
    ELSE {[t \in {hs[1].ticker, hs[2].ticker} |->
              IF t = hs[1].ticker THEN w ELSE WeightUnit - w] : w \in WeightSamples}

\* The upper-case words of the narrative, with their lengths.
Words == << [w |-> "AAPL", len |-> 4], [w |-> "ETF", len |-> 3], [w |-> "AI", len |-> 2],
            [w |-> "GOOGLE", len |-> 6], [w |-> "NVDA", len |-> 4], [w |-> "TSLA", len |-> 4],
            [w |-> "AMD", len |-> 3], [w |-> "META", len |-> 4], [w |-> "AMZN", len |-> 4],
            [w |-> "NFLX", len |-> 4], [w |-> "INTC", len |-> 4], [w |-> "CSCO", len |-> 4],
            [w |-> "ORCL", len |-> 4], [w |-> "IBM", len |-> 3], [w |-> "QCOM", len |-> 4],
            [w |-> "ADBE", len |-> 4] >>
\* A narrative is given by the set of the positions in Words of its words.
ShortTexts == SUBSET (1..6)
LongTexts == {5..(4 + n) : n \in 1..MaxSuggested}

\* Line 912: \b([A-Z]{2,5})\b
TickerRegexMatches(word) == 2 <= word.len /\ word.len <= 5
\* Line 916.
NotSuggested == {"ETF", "AI"}
\* Lines 911-917: ai_suggested, as the positions of its tickers in Words.
AiSuggested(text, existing) ==
    {i \in text : /\ TickerRegexMatches(Words[i])
                  /\ Words[i].w \notin existing
                  /\ Words[i].w \notin NotSuggested}

\* The elements of a set of numbers in increasing order.
RECURSIVE SortedSeq(_)
SortedSeq(S) ==
    IF S = {} THEN <<>>
    ELSE LET m == CHOOSE x \in S : \A y \in S : x <= y IN <<m>> \o SortedSeq(S \ {m})

\* Lines 919-924.
DefaultPct == 5
TotalDefaultCap == 15
PerTickerPct(n) ==
    IF n > 0 THEN RoundDiv(100 * Min(TotalDefaultCap, n * DefaultPct), n) ELSE 0

\* Line 787: round(100 * value / total_value, 2) if total_value else 0.
CurrentPct(value, total) == IF total # 0 THEN RoundDiv(100 * 100 * value, total) ELSE 0
\* Line 810: round(100 * weight, 2).
OptimalPct(weight) == RoundDiv(100 * 100 * weight, WeightUnit)

\* Line 777.
RECURSIVE TotalValue(_)
TotalValue(hs) == IF hs = <<>> THEN 0 ELSE hs[1].amount * hs[1].price + TotalValue(Tail(hs))

\* A price or a share count of an entry: the key is absent, None, or a number.
Absent == [kind |-> "absent", val |-> 0]
None == [kind |-> "None", val |-> 0]
Num(v) == [kind |-> "number", val |-> v]

\* yf.Ticker(t).info.get('regularMarketPrice'): a price, or no price (None,
\* or the lookup raises).
QuotedPrice == 2
PriceLookups == {"price", "unresolved"}

\* Lines 933 and 961: int((pct / 100 * total_value) // price) when price and
\* total_value are truthy, else 0.
SharesFor(pct, total, price) ==
    IF price.kind = "number" /\ price.val # 0 /\ total # 0
    THEN (pct * total) \div (100 * 100 * price.val) ELSE 0

\* Lines 793-799.
CurrentEntry(h, total) ==
    [ticker |-> h.ticker, percentage |-> CurrentPct(h.amount * h.price, total)]
\* Lines 807-811.
OptimizedEntry(t, weight) ==
    [ticker |-> t, optimal_percentage |-> OptimalPct(weight), price |-> Absent,
     shares |-> Absent]
\* Lines 934-948.
SuggestedEntry(t, pct, price, shares) ==
    [ticker |-> t, optimal_percentage |-> pct, price |-> price, shares |-> Num(shares)]

\* Line 815: curr_pct_map.get(ticker, 0).
CurrPct(current, t) ==
    IF \E i \in 1..Len(current) : current[i].ticker = t
    THEN current[CHOOSE i \in 1..Len(current) :
                    /\ current[i].ticker = t
                    /\ \A j \in (i + 1)..Len(current) : current[j].ticker # t].percentage
    ELSE 0

Abs(x) == IF x < 0 THEN 0 - x ELSE x

\* Line 820: abs(diff) < 1 skips the ticker.
MaterialAboveOne(diff) == Abs(diff) > 100
Material(diff) == ~(Abs(diff) < 100)

\* Lines 816-835.
RECURSIVE Actions(_, _)
Actions(optimized, current) ==
    IF optimized = <<>> THEN <<>>
    ELSE LET opt  == optimized[1]
             diff == opt.optimal_percentage - CurrPct(current, opt.ticker)
             rest == Actions(Tail(optimized), current)
         IN IF ~Material(diff) THEN rest
            ELSE IF diff > 0
                 THEN <<[action |-> "Increase", ticker |-> opt.ticker, magnitude |-> diff]>> \o rest
                 ELSE <<[action |-> "Reduce", ticker |-> opt.ticker, magnitude |-> Abs(diff)]>> \o rest

\* The except branch of lines 941-948.
AppendsOnFailureNever(outcome) == FALSE
AppendsOnFailure(outcome) == outcome = "unresolved"

NoAllocResponse == [status |-> 0, optimized_allocation |-> <<>>,
                    recommended_actions |-> <<>>, warning |-> NoWarning]

AllocIdle ==
    /\ o_pc = "idle"
    /\ o_valid_holdings = <<>>
    /\ o_failed_tickers = <<>>
    /\ cleaned_weights = EmptyDict
    /\ o_total_value = 0
    /\ current_allocation = <<>>
    /\ optimized_allocation = <<>>
    /\ actions = <<>>
    /\ ai_text = {}
    /\ ai_suggested = {}
    /\ ai_todo = <<>>
    /\ per_ticker_pct = 0
    /\ price_lookups = EmptyDict
    /\ o_response = NoAllocResponse

\* Lines 714-721: the tickers left out of valid_holdings, none or one.
FailedTickerLists == {<<>>} \cup {<<t>> : t \in Tickers}
\* Lines 714-777: the holdings were split and the solver returned;
\* cleaned_weights and total_value.
AllocEnter(inputs, failures) ==
    /\ o_pc = "idle"
    /\ \E hs \in inputs, failed \in failures :
        /\ SeqToSet(failed) \cap {hs[i].ticker : i \in 1..Len(hs)} = {}
        /\ o_valid_holdings' = hs
        /\ o_failed_tickers' = failed
        /\ \E cw \in CleanedWeights(hs) : cleaned_weights' = cw
        /\ o_total_value' = TotalValue(hs)
    /\ o_pc' = "weights"
    /\ UNCHANGED <<current_allocation, optimized_allocation, actions, ai_text,
                   ai_suggested, ai_todo, per_ticker_pct, price_lookups, o_response>>

\* Lines 780-811: current_allocation and optimized_allocation.
AllocBuild ==
    /\ o_pc = "weights"
    /\ current_allocation' =
          [i \in 1..Len(o_valid_holdings) |-> CurrentEntry(o_valid_holdings[i], o_total_value)]
    /\ optimized_allocation' =
          [i \in 1..Len(o_valid_holdings) |->
              OptimizedEntry(o_valid_holdings[i].ticker,
                             cleaned_weights[o_valid_holdings[i].ticker])]
    /\ o_pc' = "allocations"
    /\ UNCHANGED <<o_valid_holdings, o_failed_tickers, cleaned_weights, o_total_value, actions, ai_text,
                   ai_suggested, ai_todo, per_ticker_pct, price_lookups, o_response>>

\* Lines 813-835: the recommended actions.
AllocReconcile ==
    /\ o_pc = "allocations"
    /\ actions' = Actions(optimized_allocation, current_allocation)
    /\ o_pc' = "actions"
    /\ UNCHANGED <<o_valid_holdings, o_failed_tickers, cleaned_weights, o_total_value, current_allocation,
                   optimized_allocation, ai_text, ai_suggested, ai_todo, per_ticker_pct,
                   price_lookups, o_response>>

\* Lines 906-924: the narrative comes back; its tickers are extracted and
\* per_ticker_pct is set.  The entries are appended in the order of Words
\* (the iteration order of the set ai_suggested is the interpreter's).
AiExtract(texts) ==
    /\ o_pc = "actions"
    /\ \E text \in texts :
        LET existing  == {optimized_allocation[i].ticker : i \in 1..Len(optimized_allocation)}
            suggested == AiSuggested(text, existing)
        IN /\ ai_text' = text
           /\ ai_suggested' = {Words[i].w : i \in suggested}
           /\ ai_todo' = [k \in 1..Cardinality(suggested) |-> Words[SortedSeq(suggested)[k]].w]
           /\ per_ticker_pct' = PerTickerPct(Cardinality(suggested))
    /\ o_pc' = "suggested"
    /\ UNCHANGED <<o_valid_holdings, o_failed_tickers, cleaned_weights, o_total_value, current_allocation,
                   optimized_allocation, actions, price_lookups, o_response>>

\* Lines 926-948: one iteration of the loop over ai_suggested.
AiAppend ==
    /\ o_pc = "suggested"
    /\ ai_todo # <<>>
    /\ LET t == Head(ai_todo) IN
       \E outcome \in PriceLookups :
        /\ price_lookups' = DictSet(price_lookups, t, <<outcome>>)
        /\ IF outcome = "price"
           THEN optimized_allocation' = Append(optimized_allocation,
                    SuggestedEntry(t, per_ticker_pct, Num(QuotedPrice),
                        SharesFor(per_ticker_pct, o_total_value, Num(QuotedPrice))))
           ELSE IF AppendsOnFailure(outcome)
           THEN optimized_allocation' = Append(optimized_allocation,
                    SuggestedEntry(t, per_ticker_pct, None, 0))
           ELSE UNCHANGED optimized_allocation
    /\ ai_todo' = Tail(ai_todo)
    /\ UNCHANGED <<o_pc, o_valid_holdings, o_failed_tickers, cleaned_weights, o_total_value,
                   current_allocation, actions, ai_text, ai_suggested, per_ticker_pct,
                   o_response>>

\* Lines 950-957 for one entry: the price is looked up when it is absent or None.
FillPrice(o, outcome) ==
    IF o.price.kind = "number" THEN o
    ELSE [o EXCEPT !.price = IF outcome = "price" THEN Num(QuotedPrice) ELSE None]
\* Lines 958-965 for one entry: the shares are computed when they are absent.
FillShares(o, total) ==
    IF o.shares.kind = "number" THEN o
    ELSE [o EXCEPT !.shares = Num(SharesFor(o.optimal_percentage, total, o.price))]

\* Lines 949-965: price and shares of the entries that lack them.
AllocFill ==
    /\ o_pc = "suggested"
    /\ ai_todo = <<>>
    /\ LET need == {i \in 1..Len(optimized_allocation) :
                        optimized_allocation[i].price.kind # "number"}
       IN \E outcomes \in [need -> PriceLookups] :
            /\ optimized_allocation' =
                  [i \in 1..Len(optimized_allocation) |->
                      IF i \in need
                      THEN FillShares(FillPrice(optimized_allocation[i], outcomes[i]),
                                      o_total_value)
                      ELSE FillShares(optimized_allocation[i], o_total_value)]
            /\ price_lookups' =
                  [t \in (DOMAIN price_lookups) \cup
                         {optimized_allocation[i].ticker : i \in need} |->
                      LET before == IF t \in DOMAIN price_lookups THEN price_lookups[t]
                                    ELSE <<>>
                      IN IF \E i \in need : optimized_allocation[i].ticker = t
                         THEN Append(before,
                                outcomes[CHOOSE i \in need : optimized_allocation[i].ticker = t])
                         ELSE before]
    /\ o_pc' = "filled"
    /\ UNCHANGED <<o_valid_holdings, o_failed_tickers, cleaned_weights, o_total_value, current_allocation,
                   actions, ai_text, ai_suggested, ai_todo, per_ticker_pct, o_response>>

\* Lines 967-1007: the response.
AllocRespond ==
    /\ o_pc = "filled"
    /\ o_response' = [status |-> 200, optimized_allocation |-> optimized_allocation,
                      recommended_actions |-> actions,
                      warning |-> ResponseWarning(o_failed_tickers, NoWarning)]
    /\ o_pc' = "done"
    /\ UNCHANGED <<o_valid_holdings, o_failed_tickers, cleaned_weights, o_total_value, current_allocation,
                   optimized_allocation, actions, ai_text, ai_suggested, ai_todo,
                   per_ticker_pct, price_lookups>>

----------------------------------------------------------------------------
(***************************************************************************)
(* The upstream HTTP calls of the helpers: requests.get with or without a  *)
(* timeout argument.  Without one, requests waits for the response for as  *)
(* long as the provider keeps the connection open.                         *)
(***************************************************************************)

\* requests.get(url): no timeout argument.
NoTimeout == 0
\* requests.get(url, timeout=10)
HttpTimeout == 10

\* The requests a call of each helper sends, by their timeout arguments:
\* app.py get_news (line 181), recommendations.py get_polygon_data (lines 30
\* and 36), news.py get_news (line 65), get_polygon_history_batch (line 1127)
\* and get_alpha_vantage_history_batch (line 1169) for one ticker.
UpstreamClients == {"app_get_news", "get_polygon_data", "news_get_news",
                    "polygon_batch", "alpha_vantage_batch"}
RequestPlan(client) ==
    CASE client = "app_get_news" -> <<NoTimeout>>
      [] client = "get_polygon_data" -> <<NoTimeout, NoTimeout>>
      [] client = "news_get_news" -> <<HttpTimeout>>
      [] client = "polygon_batch" -> <<HttpTimeout>>
      [] client = "alpha_vantage_batch" -> <<HttpTimeout>>

\* A response, or requests raises: a connection error or, with a timeout
\* argument, Timeout.
UpstreamOutcomes == {"status_200", "status_other", "connection_error"}
UpstreamRaised(outcome) == outcome \in {"connection_error", "timeout"}

\* What the helper returns after its last request: the data, an empty
\* result, or the fallback of its except branch.
UpstreamResult(outcome) ==
    IF UpstreamRaised(outcome) THEN "fallback"
    ELSE IF outcome = "status_200" THEN "data" ELSE "empty"

UpstreamIdle ==
    /\ u_pc = "idle"
    /\ u_client = "none"
    /\ u_step = 0
    /\ u_timeout = NoTimeout
    /\ u_waited = 0
    /\ u_outcomes = <<>>
    /\ u_result = "none"

\* A helper is called.
UpstreamInvoke ==
    /\ u_pc = "idle"
    /\ \E client \in UpstreamClients : u_client' = client
    /\ u_step' = 1
    /\ u_pc' = "sending"
    /\ UNCHANGED <<u_timeout, u_waited, u_outcomes, u_result>>

\* requests.get(...) is entered: the request is sent with its timeout argument.
UpstreamSend ==
    /\ u_pc = "sending"
    /\ u_timeout' = RequestPlan(u_client)[u_step]
    /\ u_waited' = 0
    /\ u_pc' = "waiting"
    /\ UNCHANGED <<u_client, u_step, u_outcomes, u_result>>

\* A second passes without a response.
UpstreamWait ==
    /\ u_pc = "waiting"
    /\ u_waited < MaxWait
    /\ u_timeout # NoTimeout => u_waited < u_timeout
    /\ u_waited' = u_waited + 1
    /\ UNCHANGED <<u_pc, u_client, u_step, u_timeout, u_outcomes, u_result>>

\* The helper goes on after a request ended with the given outcome.
UpstreamContinue(outcome) ==
    /\ u_outcomes' = Append(u_outcomes, outcome)
    /\ IF ~UpstreamRaised(outcome) /\ u_step < Len(RequestPlan(u_client))
       THEN /\ u_step' = u_step + 1
            /\ u_pc' = "sending"
            /\ UNCHANGED u_result
       ELSE /\ u_result' = UpstreamResult(outcome)
            /\ u_pc' = "returned"
            /\ UNCHANGED u_step

\* The provider answers, or the connection fails.
UpstreamRespond ==
    /\ u_pc = "waiting"
    /\ \E outcome \in UpstreamOutcomes : UpstreamContinue(outcome)
    /\ UNCHANGED <<u_client, u_timeout, u_waited>>

\* The timeout of the request expires: requests raises Timeout.
UpstreamTimeout ==
    /\ u_pc = "waiting"
    /\ u_timeout # NoTimeout
    /\ u_waited = u_timeout
    /\ UpstreamContinue("timeout")
    /\ UNCHANGED <<u_client, u_timeout, u_waited>>

----------------------------------------------------------------------------
(***************************************************************************)
(* The in-memory caches: fundamental_cache of app.py and                   *)
(* _recommendations_cache of recommendations.py                            *)
(***************************************************************************)

\* app.py binds CACHE_DURATION twice at module level, to 600 at line 48 and to
\* 300 at line 56; every function of the module reads the later binding.
CACHE_DURATION == 300
\* recommendations.py line 24
CACHE_TTL == 60

\* time.time() at clock reading t, in seconds.
Seconds(t) == t * SecondsPerTick

NoEntry == -1
NotServed == [kind |-> "none", age |-> NoEntry]

\* app.py line 474: ticker in fundamental_cache and
\* (time.time() - fundamental_cache[ticker]['timestamp']) < CACHE_DURATION
CachedFundamental(cache, ticker, t) ==
    ticker \in DOMAIN cache /\ (t - cache[ticker].timestamp) < CACHE_DURATION

\* The age of a ticker's entry, NoEntry when it has none.
AgeOf(cache, ticker, t) ==
    IF ticker \in DOMAIN cache THEN t - cache[ticker].timestamp ELSE NoEntry

\* A slice that keeps the whole list.
WholeList(l) == l
\* recommendations.py lines 130 and 133: recs[:3], stocks_data[:3]
FirstThree(l) == SubSeq(l, 1, Min(3, Len(l)))

\* What compute_recommendations can return: a list of up to three
\* recommendations.
RecLists == {[i \in 1..n |-> i] : n \in 0..MaxRecs}
PyNone == [kind |-> "None", list |-> <<>>]
PyList(l) == [kind |-> "list", list |-> l]

\* Truthiness of a value that is None or a list.
Truthy(v) == v.kind = "list" /\ v.list # <<>>

\* recommendations.py line 100: _recommendations_cache["data"] and
\* now - _recommendations_cache["timestamp"] < CACHE_TTL
RecCached(cache, t) == Truthy(cache.data) /\ (t - cache.timestamp) < CACHE_TTL

NoRecServed == [kind |-> "none", age |-> NoEntry, data |-> PyNone, before |-> PyNone]

CacheIdle ==
    /\ c_now = 0
    /\ fundamental_cache = EmptyDict
    /\ f_pc = "idle" /\ f_ticker = "" /\ f_served = NotServed
    /\ recommendations_cache = [data |-> PyNone, timestamp |-> 0]
    /\ r_pc = "idle" /\ r_now = 0 /\ r_served = NoRecServed

\* Time passes.
CacheTick ==
    /\ c_now < MaxTicks
    /\ c_now' = c_now + 1
    /\ UNCHANGED <<fundamental_cache, f_pc, f_ticker, f_served, recommendations_cache,
                   r_pc, r_now, r_served>>

\* app.py lines 465-476: a /fundamental request arrives; a fresh entry is
\* returned at once.
FundamentalEnter ==
    /\ f_pc = "idle"
    /\ \E ticker \in Tickers :
        /\ f_ticker' = ticker
        /\ IF CachedFundamental(fundamental_cache, ticker, Seconds(c_now))
           THEN /\ f_served' = [kind |-> "cached",
                                age |-> AgeOf(fundamental_cache, ticker, Seconds(c_now))]
                /\ UNCHANGED f_pc
           ELSE /\ f_served' = [kind |-> "computing",
                                age |-> AgeOf(fundamental_cache, ticker, Seconds(c_now))]
                /\ f_pc' = "computing"
    /\ UNCHANGED <<c_now, fundamental_cache, recommendations_cache, r_pc, r_now, r_served>>

\* app.py lines 478-633: the data are fetched from the providers and stored
\* with the time of the store.
FundamentalStore ==
    /\ f_pc = "computing"
    /\ fundamental_cache' =
          DictSet(fundamental_cache, f_ticker,
                  [data |-> Seconds(c_now), timestamp |-> Seconds(c_now)])
    /\ f_served' = [f_served EXCEPT !.kind = "computed"]
    /\ f_pc' = "idle"
    /\ UNCHANGED <<c_now, f_ticker, recommendations_cache, r_pc, r_now, r_served>>

\* recommendations.py lines 98-101: get_recommendations_cached is called.
RecCachedEnter ==
    /\ r_pc = "idle"
    /\ r_now' = Seconds(c_now)
    /\ LET age == IF recommendations_cache.data = PyNone THEN NoEntry
                  ELSE Seconds(c_now) - recommendations_cache.timestamp
       IN IF RecCached(recommendations_cache, Seconds(c_now))
          THEN /\ r_served' = [kind |-> "cached", age |-> age,
                               data |-> recommendations_cache.data,
                               before |-> recommendations_cache.data]
               /\ UNCHANGED r_pc
          ELSE /\ r_served' = [kind |-> "computing", age |-> age, data |-> PyNone,
                               before |-> recommendations_cache.data]
               /\ r_pc' = "computing"
    /\ UNCHANGED <<c_now, fundamental_cache, f_pc, f_ticker, f_served,
                   recommendations_cache>>

\* recommendations.py lines 102-106: compute_recommendations returned; the
\* result is stored with the `now` read at the start of the call.
RecCachedStore ==
    /\ r_pc = "computing"
    /\ \E recs \in RecLists :
        LET computed == PyList(FirstThree(recs)) IN
        /\ recommendations_cache' = [data |-> computed, timestamp |-> r_now]
        /\ r_served' = [r_served EXCEPT !.kind = "computed", !.data = computed]
    /\ r_pc' = "idle"
    /\ UNCHANGED <<c_now, fundamental_cache, f_pc, f_ticker, f_served, r_now>>

----------------------------------------------------------------------------
(***************************************************************************)
(* compute_recommendations (recommendations.py lines 108-140)              *)
(***************************************************************************)

\* recommendations.py line 20, the first MaxTop of them
AllTopTickers == <<"NVDA", "AAPL", "TSLA", "MSFT", "GOOGL">>
TOP_TICKERS == SubSeq(AllTopTickers, 1, Min(MaxTop, Len(AllTopTickers)))

\* What a task of the pool ends with: a value, or an exception that
\* future.result() raises again.
TaskOutcomes == {"returned", "raised"}

\* The entry of a ticker in stocks_data.  get_polygon_data's own handler
\* (lines 41-43) returns the entry that line 119 builds.
StockEntry(ticker, outcome) ==
    [ticker |-> ticker, priced |-> outcome = "returned", news |-> "unset"]

\* The list a news task returned for its ticker.
NewsOf(ticker) == <<"news", ticker>>
EmptyNews == <<>>

\* line 127: news_data.get(stock["ticker"], [])
NewsFor(dict, ticker) == IF ticker \in DOMAIN dict THEN dict[ticker] ELSE EmptyNews

ComputeIdle ==
    /\ k_pc = "idle"
    /\ stock_pending = {} /\ news_pending = {}
    /\ stocks_data = <<>> /\ news_data = EmptyDict /\ news_results = EmptyDict
    /\ k_result = <<>>

\* Lines 109-113: the tasks are submitted.
ComputeEnter ==
    /\ k_pc = "idle"
    /\ stock_pending' = SeqToSet(TOP_TICKERS)
    /\ news_pending' = SeqToSet(TOP_TICKERS)
    /\ stocks_data' = <<>>
    /\ news_data' = EmptyDict
    /\ news_results' = EmptyDict
    /\ k_pc' = "stocks"
    /\ UNCHANGED k_result

\* Lines 114-119: as_completed yields the next stock future that is done.
StockCompleted ==
    /\ k_pc = "stocks"
    /\ stock_pending # {}
    /\ \E ticker \in stock_pending, outcome \in TaskOutcomes :
        /\ stocks_data' = Append(stocks_data, StockEntry(ticker, outcome))
        /\ stock_pending' = stock_pending \ {ticker}
    /\ UNCHANGED <<k_pc, news_pending, news_data, news_results, k_result>>

\* Lines 120-125: the first loop is over; as_completed yields the next news
\* future that is done.
NewsCompleted ==
    /\ k_pc \in {"stocks", "news"}
    /\ stock_pending = {}
    /\ news_pending # {}
    /\ \E ticker \in news_pending, outcome \in TaskOutcomes :
        /\ news_data' = DictSet(news_data, ticker,
                                IF outcome = "returned" THEN NewsOf(ticker) ELSE EmptyNews)
        /\ news_results' = DictSet(news_results, ticker, outcome)
        /\ news_pending' = news_pending \ {ticker}
    /\ k_pc' = "news"
    /\ UNCHANGED <<stock_pending, stocks_data, k_result>>

\* Lines 126-127: each entry gets the news of its ticker; the pool is left.
ComputePair ==
    /\ k_pc \in {"stocks", "news"}
    /\ stock_pending = {} /\ news_pending = {}
    /\ stocks_data' = [i \in 1..Len(stocks_data) |->
                          [stocks_data[i] EXCEPT
                              !.news = NewsFor(news_data, stocks_data[i].ticker)]]
    /\ k_pc' = "prompt"
    /\ UNCHANGED <<stock_pending, news_pending, news_data, news_results, k_result>>

\* The fallback entry of lines 133-138.
FallbackRec(s) == <<"fallback", s.ticker>>

\* Lines 128-140: the model is asked; recs[:3], or the first three entries of
\* stocks_data when the call raises.
ComputePrompt ==
    /\ k_pc = "prompt"
    /\ \/ \E recs \in RecLists : k_result' = FirstThree(recs)
       \/ k_result' = [i \in 1..Len(FirstThree(stocks_data)) |->
                          FallbackRec(FirstThree(stocks_data)[i])]
    /\ k_pc' = "done"
    /\ UNCHANGED <<stock_pending, news_pending, stocks_data, news_data, news_results>>

----------------------------------------------------------------------------
vars == <<gvars, avars, pvars, tvars, xvars>>

AggInit == AggIdle /\ agg_call = 0 /\ agg_prev = EmptyTable

----------------------------------------------------------------------------
(* The specifications *)

\* The throttled clients at rest, as they are in the other specifications.
ThrottleRest == ThrottleIdle /\ t_client = "none" /\ news_key_valid = TRUE /\ w_delay = 0

\* The functions of the second part at rest.
RestIdle == MetricsIdle /\ AllocIdle /\ UpstreamIdle /\ CacheIdle /\ ComputeIdle

Init == GroqIdle /\ AggInit /\ PortfolioIdle /\ ThrottleRest /\ RestIdle

\* One /portfolio request, with the aggregator and the narrative client it calls.
Next ==
    \/ PortfolioStart /\ UNCHANGED <<gvars, tvars, xvars>>
    \/ AlphaVantageRequest /\ UNCHANGED <<gvars, pvars, tvars, xvars>>
    \/ AggReturn /\ UNCHANGED <<gvars, pvars, tvars, xvars>>
    \/ PortfolioClassify /\ UNCHANGED <<gvars, tvars, xvars>>
    \/ PortfolioEstimate /\ UNCHANGED <<gvars, avars, tvars, xvars>>
    \/ PortfolioEfficientRisk /\ UNCHANGED <<gvars, avars, tvars, xvars>>
    \/ PortfolioMinVolatility /\ UNCHANGED <<gvars, avars, tvars, xvars>>
    \/ PortfolioEfficientRiskMin /\ UNCHANGED <<gvars, avars, tvars, xvars>>
    \/ PortfolioMaxSharpeFallback /\ UNCHANGED <<gvars, avars, tvars, xvars>>
    \/ PortfolioMaxSharpe /\ UNCHANGED <<gvars, avars, tvars, xvars>>
    \/ PortfolioBuild /\ UNCHANGED <<avars, tvars, xvars>>
    \/ GroqAttempt /\ UNCHANGED <<avars, pvars, tvars, xvars>>
    \/ GroqExhausted /\ UNCHANGED <<avars, pvars, tvars, xvars>>
    \/ PortfolioRespond /\ UNCHANGED <<gvars, avars, tvars, xvars>>
Spec == Init /\ [][Next]_vars

\* groq_generate_content alone, called with any retries and delay.
NextGroq ==
    \/ GroqInvoke /\ UNCHANGED <<avars, pvars, tvars, xvars>>
    \/ GroqAttempt /\ UNCHANGED <<avars, pvars, tvars, xvars>>
    \/ GroqExhausted /\ UNCHANGED <<avars, pvars, tvars, xvars>>
SpecGroq == Init /\ [][NextGroq]_vars

\* The two aggregators alone, called once with any tickers and range.
NextAgg ==
    \/ AggInvoke /\ UNCHANGED <<gvars, pvars, tvars, xvars>>
    \/ PriceHistoryInvoke /\ UNCHANGED <<gvars, pvars, tvars, xvars>>
    \/ PolygonFullRange /\ UNCHANGED <<gvars, pvars, tvars, xvars>>
    \/ PolygonReducedRange /\ UNCHANGED <<gvars, pvars, tvars, xvars>>
    \/ AlphaVantageRequest /\ UNCHANGED <<gvars, pvars, tvars, xvars>>
    \/ AggReturn /\ UNCHANGED <<gvars, pvars, tvars, xvars>>
SpecAgg == Init /\ [][NextAgg]_vars

\* get_polygon_history_batch called with any batch of tickers and the ten-year
\* window of its caller.  A call that was entered keeps running: every request
\* returns or times out and every sleep ends, so the loop's next step is
\* always taken.
NextPolygon ==
    \/ PolygonBatchInvoke /\ UNCHANGED <<gvars, pvars, tvars, xvars>>
    \/ PolygonFullRange /\ UNCHANGED <<gvars, pvars, tvars, xvars>>
    \/ PolygonReducedRange /\ UNCHANGED <<gvars, pvars, tvars, xvars>>
    \/ AggReturn /\ UNCHANGED <<gvars, pvars, tvars, xvars>>
PolygonStep ==
    /\ PolygonFullRange \/ PolygonReducedRange \/ AggReturn
    /\ UNCHANGED <<gvars, pvars, tvars, xvars>>
SpecPolygon == Init /\ [][NextPolygon]_vars /\ WF_vars(PolygonStep)

\* The same, and the call repeated with the same arguments.
NextAggTwice ==
    \/ NextAgg
    \/ AggInvokeAgain /\ UNCHANGED <<gvars, pvars, tvars, xvars>>
SpecAggTwice == Init /\ [][NextAggTwice]_vars

\* One throttled client, called again and again by a single caller.
InitThrottle ==
    /\ GroqIdle /\ AggInit /\ PortfolioIdle /\ ThrottleIdle /\ RestIdle
    /\ t_client \in {"news", "wrapper", "polygon_history"}
    /\ news_key_valid \in BOOLEAN
    /\ w_delay \in 1..MaxDelay
NextThrottle ==
    \/ Tick /\ UNCHANGED <<gvars, avars, pvars, xvars>>
    \/ NewsEnter(1) /\ UNCHANGED <<gvars, avars, pvars, xvars>>
    \/ NewsThrottle(1) /\ UNCHANGED <<gvars, avars, pvars, xvars>>
    \/ NewsWake(1) /\ UNCHANGED <<gvars, avars, pvars, xvars>>
    \/ NewsRequestStart(1) /\ UNCHANGED <<gvars, avars, pvars, xvars>>
    \/ NewsRequestEnd(1) /\ UNCHANGED <<gvars, avars, pvars, xvars>>
    \/ WrapperEnter /\ UNCHANGED <<gvars, avars, pvars, xvars>>
    \/ WrapperWake /\ UNCHANGED <<gvars, avars, pvars, xvars>>
    \/ WrapperCall /\ UNCHANGED <<gvars, avars, pvars, xvars>>
    \/ WrapperReturn /\ UNCHANGED <<gvars, avars, pvars, xvars>>
    \/ PolygonHistoryHandler /\ UNCHANGED <<gvars, avars, pvars, xvars>>
SpecThrottle == InitThrottle /\ [][NextThrottle]_vars

\* news.get_news called by the threads of one worker pool at once, as
\* compute_recommendations does (recommendations.py line 111).
InitPool ==
    /\ GroqIdle /\ AggInit /\ PortfolioIdle /\ ThrottleIdle /\ RestIdle
    /\ t_client = "news"
    /\ news_key_valid = TRUE
    /\ w_delay = 0
NextPool ==
    \/ Tick /\ UNCHANGED <<gvars, avars, pvars, xvars>>
    \/ \E th \in Callers : NewsEnter(th) /\ UNCHANGED <<gvars, avars, pvars, xvars>>
    \/ \E th \in Callers : NewsThrottle(th) /\ UNCHANGED <<gvars, avars, pvars, xvars>>
    \/ \E th \in Callers : NewsWake(th) /\ UNCHANGED <<gvars, avars, pvars, xvars>>
    \/ \E th \in Callers : NewsRequestStart(th) /\ UNCHANGED <<gvars, avars, pvars, xvars>>
    \/ \E th \in Callers : NewsRequestEnd(th) /\ UNCHANGED <<gvars, avars, pvars, xvars>>
SpecPool == InitPool /\ [][NextPool]_vars

\* /fundamental requests, one after the other, while time passes.
NextFundamental ==
    \/ CacheTick /\ UNCHANGED <<gvars, avars, pvars, tvars, mvars, ovars, uvars, kvars>>
    \/ FundamentalEnter /\ UNCHANGED <<gvars, avars, pvars, tvars, mvars, ovars, uvars, kvars>>
    \/ FundamentalStore /\ UNCHANGED <<gvars, avars, pvars, tvars, mvars, ovars, uvars, kvars>>
SpecFundamental == Init /\ [][NextFundamental]_vars

\* Calls of get_recommendations_cached, one after the other, while time passes.
NextRecCache ==
    \/ CacheTick /\ UNCHANGED <<gvars, avars, pvars, tvars, mvars, ovars, uvars, kvars>>
    \/ RecCachedEnter /\ UNCHANGED <<gvars, avars, pvars, tvars, mvars, ovars, uvars, kvars>>
    \/ RecCachedStore /\ UNCHANGED <<gvars, avars, pvars, tvars, mvars, ovars, uvars, kvars>>
SpecRecCache == Init /\ [][NextRecCache]_vars

\* One call of compute_recommendations.
NextCompute ==
    \/ ComputeEnter /\ UNCHANGED <<gvars, avars, pvars, tvars, mvars, ovars, uvars, cvars>>
    \/ StockCompleted /\ UNCHANGED <<gvars, avars, pvars, tvars, mvars, ovars, uvars, cvars>>
    \/ NewsCompleted /\ UNCHANGED <<gvars, avars, pvars, tvars, mvars, ovars, uvars, cvars>>
    \/ ComputePair /\ UNCHANGED <<gvars, avars, pvars, tvars, mvars, ovars, uvars, cvars>>
    \/ ComputePrompt /\ UNCHANGED <<gvars, avars, pvars, tvars, mvars, ovars, uvars, cvars>>
SpecCompute == Init /\ [][NextCompute]_vars

\* calculate_portfolio_metrics, called once with any holdings and override.
NextMetrics ==
    \/ MetricsInvoke /\ UNCHANGED <<gvars, avars, pvars, tvars, ovars, uvars, cvars, kvars>>
    \/ MetricsEmpty /\ UNCHANGED <<gvars, avars, pvars, tvars, ovars, uvars, cvars, kvars>>
    \/ MetricsResolve /\ UNCHANGED <<gvars, avars, pvars, tvars, ovars, uvars, cvars, kvars>>
    \/ MetricsTotal /\ UNCHANGED <<gvars, avars, pvars, tvars, ovars, uvars, cvars, kvars>>
    \/ MetricsHistory /\ UNCHANGED <<gvars, avars, pvars, tvars, ovars, uvars, cvars, kvars>>
    \/ MetricsFallback /\ UNCHANGED <<gvars, avars, pvars, tvars, ovars, uvars, cvars, kvars>>
    \/ MetricsRisk /\ UNCHANGED <<gvars, avars, pvars, tvars, ovars, uvars, cvars, kvars>>
SpecMetrics == Init /\ [][NextMetrics]_vars

\* The /portfolio route from the solver's weights to the response, for any
\* valid holdings, weights and short narrative.
NextAlloc ==
    \/ AllocEnter(ValidHoldingLists, FailedTickerLists) /\ UNCHANGED <<gvars, avars, pvars, tvars, mvars, uvars, cvars, kvars>>
    \/ AllocBuild /\ UNCHANGED <<gvars, avars, pvars, tvars, mvars, uvars, cvars, kvars>>
    \/ AllocReconcile /\ UNCHANGED <<gvars, avars, pvars, tvars, mvars, uvars, cvars, kvars>>
    \/ AiExtract(ShortTexts) /\ UNCHANGED <<gvars, avars, pvars, tvars, mvars, uvars, cvars, kvars>>
    \/ AiAppend /\ UNCHANGED <<gvars, avars, pvars, tvars, mvars, uvars, cvars, kvars>>
    \/ AllocFill /\ UNCHANGED <<gvars, avars, pvars, tvars, mvars, uvars, cvars, kvars>>
    \/ AllocRespond /\ UNCHANGED <<gvars, avars, pvars, tvars, mvars, uvars, cvars, kvars>>
SpecAlloc == Init /\ [][NextAlloc]_vars

\* The same for one holding and narratives that suggest up to MaxSuggested
\* tickers.
NextMerge ==
    \/ AllocEnter({<<[ticker |-> "AAPL", amount |-> 1, price |-> 1]>>}, {<<>>})
          /\ UNCHANGED <<gvars, avars, pvars, tvars, mvars, uvars, cvars, kvars>>
    \/ AllocBuild /\ UNCHANGED <<gvars, avars, pvars, tvars, mvars, uvars, cvars, kvars>>
    \/ AllocReconcile /\ UNCHANGED <<gvars, avars, pvars, tvars, mvars, uvars, cvars, kvars>>
    \/ AiExtract(LongTexts) /\ UNCHANGED <<gvars, avars, pvars, tvars, mvars, uvars, cvars, kvars>>
    \/ AiAppend /\ UNCHANGED <<gvars, avars, pvars, tvars, mvars, uvars, cvars, kvars>>
    \/ AllocFill /\ UNCHANGED <<gvars, avars, pvars, tvars, mvars, uvars, cvars, kvars>>
    \/ AllocRespond /\ UNCHANGED <<gvars, avars, pvars, tvars, mvars, uvars, cvars, kvars>>
SpecMerge == Init /\ [][NextMerge]_vars

\* One call of a helper that calls an upstream provider.
NextUpstream ==
    \/ UpstreamInvoke /\ UNCHANGED <<gvars, avars, pvars, tvars, mvars, ovars, cvars, kvars>>
    \/ UpstreamSend /\ UNCHANGED <<gvars, avars, pvars, tvars, mvars, ovars, cvars, kvars>>
    \/ UpstreamWait /\ UNCHANGED <<gvars, avars, pvars, tvars, mvars, ovars, cvars, kvars>>
    \/ UpstreamRespond /\ UNCHANGED <<gvars, avars, pvars, tvars, mvars, ovars, cvars, kvars>>
    \/ UpstreamTimeout /\ UNCHANGED <<gvars, avars, pvars, tvars, mvars, ovars, cvars, kvars>>
SpecUpstream == Init /\ [][NextUpstream]_vars

----------------------------------------------------------------------------
(***************************************************************************)
(* The properties                                                          *)
(***************************************************************************)

TargetObjective == risk_tolerance \in {"Conservative", "Moderate"}

SolveFailed(method) ==
    \E k \in 1..Len(solves) : solves[k].method = method /\ solves[k].outcome = "fail"

\* C1: with a target-volatility objective and at least 2 valid tickers, the
\* ladder ends in weights and a success response whichever of efficient_risk and
\* min_volatility fail, as long as no max_sharpe solve fails: no solver failure
\* reaches the generic 500 response.
C1_LadderAlwaysEndsInAResult ==
    (/\ p_pc = "done"
     /\ TargetObjective
     /\ Len(valid_holdings) >= 2
     /\ ~SolveFailed("max_sharpe"))
    => (response.status = 200 /\ weights # NoWeights)

\* C2: every successful response with a target-volatility objective either used
\* the requested target and reports no volatility warning, or carries the
\* volatility warning that names the fallback whose weights are used, never
\* both; and the volatility warning is there also when the failed-ticker message
\* has taken the place of the general warning.
C2_TargetOrWarning ==
    (p_pc = "done" /\ response.status = 200 /\ TargetObjective)
    => LET requested == IF risk_tolerance = "Conservative"
                        THEN TargetVol(ConservativeTarget) ELSE TargetVol(ModerateTarget)
           a == /\ used_volatility = requested
                /\ weights.method = "efficient_risk"
                /\ ~response.has_volatility_warning
           b == /\ response.has_volatility_warning
                /\ \/ /\ weights.method = "efficient_risk_min"
                      /\ response.volatility_warning = WarnUsedMinVol
                   \/ /\ weights.method = "max_sharpe"
                      /\ response.volatility_warning = WarnUsedMaxSharpe
       IN /\ (a \/ b) /\ ~(a /\ b)
          /\ failed_tickers # <<>> => response.warning.kind = "could_not_fetch_data_excluded"

\* C2 witness: a success after the minimum-volatility retry, with a failed ticker.
C2_Witness ==
    /\ p_pc = "done" /\ response.status = 200 /\ TargetObjective
    /\ weights.method = "efficient_risk_min"
    /\ failed_tickers # <<>>
    /\ response.has_volatility_warning

\* C3: the optimizer (the estimation of mu and S, an EfficientFrontier, any
\* solve) is never invoked with fewer than 2 valid holdings, and with 0 or 1
\* valid holdings the route answers with an explicit error.
C3_NoOptimizationBelowTwoValid ==
    /\ (ef # 0 \/ opt_input # {} \/ solves # <<>>) => Len(valid_holdings) >= 2
    /\ (p_pc = "done" /\ Len(valid_holdings) < 2) => response.status = 400

\* C4: after the aggregation every holding's ticker is either valid (it has a
\* column with a value in the table) or in failed_tickers, never both; only valid
\* tickers reach the optimizer; a successful response with failed tickers names
\* each of them in its warning.
C4_ValidXorFailed ==
    p_pc \notin {"idle", "aggregating"} =>
        /\ \A i \in 1..Len(holdings) :
             LET t == holdings[i]
                 inValid == \E j \in 1..Len(valid_holdings) : valid_holdings[j] = t
                 inFailed == \E j \in 1..Len(failed_tickers) : failed_tickers[j] = t
             IN /\ inValid # inFailed
                /\ inValid <=> (t \in DOMAIN data /\ data[t] # {})
        /\ \A t \in opt_input :
             /\ \E j \in 1..Len(valid_holdings) : valid_holdings[j] = t
             /\ ~\E j \in 1..Len(failed_tickers) : failed_tickers[j] = t
        /\ (p_pc = "done" /\ response.status = 200 /\ failed_tickers # <<>>) =>
             /\ response.warning.kind = "could_not_fetch_data_excluded"
             /\ \A j \in 1..Len(failed_tickers) :
                  \E k \in 1..Len(response.warning.tickers) :
                      response.warning.tickers[k] = failed_tickers[j]

\* C4 witness: a successful response with a valid and a failed ticker.
C4_Witness ==
    /\ p_pc = "done" /\ response.status = 200
    /\ failed_tickers # <<>> /\ valid_holdings # <<>>
    /\ opt_input # {}

\* Whether some request made for ticker t came back 200 with a non-empty series.
ServedTo(t) ==
    \E j \in 1..Len(agg_tickers) : agg_tickers[j] = t /\ agg_log[j].ok # {}

\* The same, the series being one the aggregator can use: any for Polygon, one
\* with a date in [from_date, to_date] for Alpha Vantage.
InRange(s) == {d \in s : from_date <= d /\ d <= to_date}
UsableServedTo(t) ==
    \E j \in 1..Len(agg_tickers) :
        /\ agg_tickers[j] = t
        /\ \E s \in agg_log[j].ok : agg_kind = "alpha_vantage" => InRange(s) # {}

\* C5 as stated: the table holds a ticker if and only if one of that ticker's
\* own requests returned 200 with a non-empty series.
C5_PresentIffServed ==
    agg_pc \in {"running", "done"} =>
        \A t \in Tickers : (t \in DOMAIN all_data) <=> ServedTo(t)

\* C5 as amended: the table holds a ticker if and only if one of that ticker's
\* own requests returned 200 with a non-empty series which, for Alpha Vantage,
\* has a date in the requested range; the stored series is one that was served
\* (cut to the range for Alpha Vantage), never empty or made up; and every ticker
\* of the input gets its own request whatever happened to the ones before it.
C5_PresentIffUsableServed ==
    agg_pc \in {"running", "done"} =>
        /\ \A t \in Tickers : (t \in DOMAIN all_data) <=> UsableServedTo(t)
        /\ \A t \in DOMAIN all_data :
             /\ all_data[t] # {}
             /\ \E j \in 1..Len(agg_tickers) :
                  /\ agg_tickers[j] = t
                  /\ \E s \in agg_log[j].ok :
                       all_data[t] = IF agg_kind = "alpha_vantage" THEN InRange(s) ELSE s
        /\ agg_pc = "done" =>
             \A j \in 1..Len(agg_tickers) : agg_log[j].full + agg_log[j].reduced >= 1

\* C5 witness: the first ticker failed through an exception, the second is in
\* the table.
C5_Witness ==
    /\ agg_pc = "done" /\ Len(agg_tickers) = 2
    /\ agg_tickers[1] # agg_tickers[2]
    /\ agg_tickers[1] \notin DOMAIN all_data
    /\ agg_log[1].full = 1 /\ agg_log[1].reduced = 0 /\ agg_kind = "polygon"
    /\ agg_tickers[2] \in DOMAIN all_data

\* C6: a call that fails with an error that is no rate-limit signal is the last
\* upstream call of the invocation.
C6_NoRetryAfterNonTransient ==
    \A k \in 1..Len(g_outcomes) :
        (GroqRaises(g_outcomes[k]) /\ ~IsRateLimitMsg(g_outcomes[k].msg)) => g_calls = k

RECURSIVE Pow2(_)
Pow2(n) == IF n = 0 THEN 1 ELSE 2 * Pow2(n - 1)

\* C7: at most `retries` upstream calls are made; the k-th wait is the initial
\* delay times 2^(k-1); a successful call is the last one and its text is what
\* the function returns.
C7_BoundedCallsAndBackoff ==
    /\ g_calls <= g_retries
    /\ Len(g_sleeps) <= g_retries
    /\ \A k \in 1..Len(g_sleeps) : g_sleeps[k] = g_delay0 * Pow2(k - 1)
    /\ \A k \in 1..Len(g_outcomes) :
         g_outcomes[k].kind = "ok" =>
            /\ g_calls = k
            /\ g_pc = "returned"
            /\ g_result = GroqText(k)

\* C7 witness: three rate-limited calls, three waits, the loop over.
C7_Witness ==
    /\ g_pc = "returned" /\ g_retries = 3 /\ g_calls = 3
    /\ Len(g_sleeps) = 3
    /\ \A k \in 1..3 : IsRateLimitMsg(g_outcomes[k].msg) /\ g_outcomes[k].kind = "error"

\* C8: groq_generate_content never raises and returns a string, a fallback
\* message when no attempt succeeded; the /portfolio response is then produced
\* with that string as ai_analysis.
C8_NarrativeNeverBlocks ==
    /\ g_pc # "raised"
    /\ g_pc = "returned" =>
         /\ g_result.kind \in {"text", "unable_due_to", "unable_after_attempts"}
         /\ (\A k \in 1..Len(g_outcomes) : g_outcomes[k].kind # "ok")
              => g_result.kind \in {"unable_due_to", "unable_after_attempts"}
    /\ (p_pc = "done" /\ g_pc = "returned") =>
         /\ response.status = 200
         /\ response.ai_analysis = g_result

\* C8 witness: every attempt failed and the response is a success carrying the
\* fallback message.
C8_Witness ==
    /\ p_pc = "done" /\ g_pc = "returned"
    /\ g_calls = DefaultRetries
    /\ g_result.kind = "unable_due_to"
    /\ response.status = 200
    /\ response.ai_analysis.kind = "unable_due_to"

\* C9: two consecutive upstream requests of a throttled client are at least the
\* client's minimum interval apart.
C9_MinimumInterval ==
    /\ Len(news_starts) = 2 => news_starts[2] - news_starts[1] >= NEWS_RATE_LIMIT_DELAY
    /\ Len(w_starts) = 2 => w_starts[2] - w_starts[1] >= w_delay

\* C10: a second call of the aggregator with the same tickers and range returns
\* the same table without any upstream request.
C10_SecondCallIsACacheHit ==
    (agg_call = 2 /\ agg_pc = "done" /\ agg_tickers # <<>>) =>
        (agg_reqs = 0 /\ all_data = agg_prev)

----------------------------------------------------------------------------
(***************************************************************************)
(* calculate_portfolio_metrics                                             *)
(***************************************************************************)

MetricsReturned == m_pc = "done" /\ m_result.kind = "result"

\* The sum of price x amount over the rows of holdings.
RECURSIVE RowSum(_, _)
RowSum(hs, prices) ==
    IF hs = <<>> THEN 0 ELSE prices[hs[1].ticker] * hs[1].amount + RowSum(Tail(hs), prices)

ValidPositiveOverride == m_override.kind = "number" /\ m_override.val > 0

\* C11: the reported total_value is the sum of price x amount over the
\* holdings unless the override is a valid positive number, and then it is the
\* override; it is never negative.
C11_TotalValueSumOrPositiveOverride ==
    (MetricsReturned /\ m_holdings # <<>>) =>
        /\ m_result.total_value =
              (IF ValidPositiveOverride THEN m_override.val
               ELSE RowSum(m_holdings, m_prices))
        /\ m_result.total_value >= 0

RECURSIVE SumOver(_, _)
SumOver(d, keys) ==
    IF keys = {} THEN 0
    ELSE LET k == CHOOSE x \in keys : TRUE IN d[k] + SumOver(d, keys \ {k})

\* C12: the sector_exposure percentages are computed against the computed sum
\* of price x amount, so they sum to 100 within 0.5 for any override whenever
\* the computed value is positive.
C12_ExposureSumsTo100ForAnyOverride ==
    (MetricsReturned /\ m_holdings # <<>> /\ RowSum(m_holdings, m_prices) > 0) =>
        LET total == SumOver(m_result.sector_exposure, DOMAIN m_result.sector_exposure)
        IN 9950 <= total /\ total <= 10050

\* C13: the function returns a result for every combination of available
\* histories, the zeroed one with risk_level 'N/A' when there is none.
C13_MetricsNeverFail ==
    /\ m_pc # "raised"
    /\ (m_pc = "done" /\ m_holdings # <<>> /\ m_hist = {}) =>
          /\ m_result.kind = "result"
          /\ m_result.expected_return = "zero"
          /\ m_result.volatility = 0
          /\ m_result.risk_level = "N/A"

\* C14: the reported risk_level and the reported volatility agree with the
\* thresholds 10 and 18, and 'N/A' is reported exactly when there is no
\* historical data (volatility 0).
C14_RiskLevelAgreesWithReportedVolatility ==
    MetricsReturned =>
        LET v == m_result.volatility
            r == m_result.risk_level
        IN /\ (r = "N/A") <=> (m_hist = {})
           /\ (r = "N/A") => v = 0
           /\ (m_hist # {}) =>
                /\ (r = "Conservative") <=> (v < ConservativeBelow * 100)
                /\ (r = "Moderate") <=> (ConservativeBelow * 100 <= v /\ v < ModerateBelow * 100)
                /\ (r = "Aggressive") <=> (v >= ModerateBelow * 100)

\* C15: for a non-empty holdings list diversification_score is
\* min(100, 15 x distinct sectors + 5 x holdings), an integer in 0..100, a
\* holding of price 0 counting too, and the keys of sector_exposure are the
\* distinct resolved sectors.
C15_DiversificationScore ==
    /\ (MetricsReturned /\ m_holdings # <<>>) =>
        LET distinct == {m_sectors[m_holdings[i].ticker] : i \in 1..Len(m_holdings)}
            raw      == 15 * Cardinality(distinct) + 5 * Len(m_holdings)
        IN /\ m_result.diversification_score = (IF raw > 100 THEN 100 ELSE raw)
           /\ m_result.diversification_score \in 0..100
           /\ DOMAIN m_result.sector_exposure = distinct
    /\ (m_pc = "entered") =>
          \A ns \in 0..8, nt \in 0..24 :
             ScoreOf(ns, nt) = (IF 15 * ns + 5 * nt > 100 THEN 100 ELSE 15 * ns + 5 * nt)

C15_Witness ==
    /\ MetricsReturned
    /\ Len(m_holdings) = 2
    /\ \E i \in 1..2 : m_prices[m_holdings[i].ticker] = 0
    /\ \E i \in 1..2 : m_prices[m_holdings[i].ticker] # 0
    /\ "Other" \in DOMAIN m_result.sector_exposure
    /\ Cardinality(DOMAIN m_result.sector_exposure) = 2
    /\ m_result.diversification_score = 40

----------------------------------------------------------------------------
(***************************************************************************)
(* /portfolio: reconciliation and the tickers suggested by the narrative   *)
(***************************************************************************)

OptimizerTickers == DOMAIN cleaned_weights

\* The entries of a list of records that are about ticker t.
EntriesOf(list, t) == {i \in 1..Len(list) : list[i].ticker = t}

\* optimal percentage - current percentage of a ticker of the optimizer.
DiffOf(t) ==
    LET o == optimized_allocation[CHOOSE i \in EntriesOf(optimized_allocation, t) : TRUE]
        c == EntriesOf(current_allocation, t)
    IN o.optimal_percentage -
       (IF c = {} THEN 0 ELSE current_allocation[CHOOSE i \in c : TRUE].percentage)

MergedEntries ==
    {i \in 1..Len(o_response.optimized_allocation) :
        o_response.optimized_allocation[i].ticker \in ai_suggested}

\* C17: the n >= 1 merged tickers all get the same optimal_percentage and
\* their total never exceeds 15 percentage points.
C17_MergedTotalAtMost15 ==
    (o_pc = "done" /\ ai_suggested # {}) =>
        /\ \A i, j \in MergedEntries :
              o_response.optimized_allocation[i].optimal_percentage =
              o_response.optimized_allocation[j].optimal_percentage
        /\ \A i \in MergedEntries :
              Cardinality(MergedEntries) *
                 o_response.optimized_allocation[i].optimal_percentage <= 15 * 100

RECURSIVE SumPct(_)
SumPct(list) ==
    IF list = <<>> THEN 0 ELSE list[1].optimal_percentage + SumPct(Tail(list))

\* C18: in a successful response the optimal_percentage values of the
\* returned optimized_allocation sum to 100 within rounding and each lies
\* in [0, 100].
C18_ReturnedAllocationSumsTo100 ==
    (o_pc = "done" /\ o_response.status = 200) =>
        /\ SumPct(o_response.optimized_allocation) >= 100 * 100 - 50
        /\ SumPct(o_response.optimized_allocation) <= 100 * 100 + 50
        /\ \A i \in 1..Len(o_response.optimized_allocation) :
              o_response.optimized_allocation[i].optimal_percentage \in 0..(100 * 100)

\* The tickers the narrative suggests: its words of 2 to 5 capital letters
\* other than ETF and AI that the optimizer's allocation does not hold.
SuggestedByText ==
    {Words[i].w : i \in {j \in ai_text : /\ Words[j].len \in 2..5
                                        /\ Words[j].w \notin {"ETF", "AI"}
                                        /\ Words[j].w \notin OptimizerTickers}}

\* C19: every suggested ticker is in the returned allocation exactly once,
\* whatever its price lookup gave; when no lookup resolved its price the
\* entry has price null and 0 shares; the request succeeds.
C19_SuggestedTickerAppendedOnce ==
    (o_pc = "done") =>
        /\ o_response.status = 200
        /\ \A t \in SuggestedByText :
            LET es == EntriesOf(o_response.optimized_allocation, t) IN
            /\ Cardinality(es) = 1
            /\ (\A k \in 1..Len(price_lookups[t]) : price_lookups[t][k] = "unresolved") =>
                  \A i \in es : /\ o_response.optimized_allocation[i].price = None
                                /\ o_response.optimized_allocation[i].shares = Num(0)

C19_Witness ==
    /\ o_pc = "done"
    /\ Cardinality(SuggestedByText) = 2
    /\ \E t \in SuggestedByText : price_lookups[t] = <<"unresolved", "unresolved">>
    /\ \E t \in SuggestedByText : price_lookups[t] = <<"price">>
    /\ \E i \in ai_text : Words[i].w \in {"ETF", "AI"}
    /\ \E i \in ai_text : Words[i].w \in OptimizerTickers

----------------------------------------------------------------------------
(***************************************************************************)
(* Upstream timeouts                                                       *)
(***************************************************************************)

\* C20: every upstream HTTP call carries an explicit timeout, so a helper
\* never waits for a response longer than that and returns even when the
\* provider never responds.
C20_EveryUpstreamCallHasATimeout ==
    (u_pc = "waiting") => (u_timeout # NoTimeout /\ u_waited <= u_timeout)


\* C21: when the requested target is infeasible, the target of the second
\* efficient_risk solve, reported as the volatility used, is the portfolio
\* volatility of the minimum-variance portfolio and no other quantity of the
\* minimum-variance solve's output.
C21_SecondTargetIsMinVariancePortfolioVolatility ==
    (weights.method = "efficient_risk_min") =>
        used_volatility.kind = "portfolio_volatility_of_min_volatility_result"

\* C28: within one /portfolio request no EfficientFrontier instance has a solve
\* invoked on it after another solve was invoked on that same instance, whether
\* the earlier solve succeeded or failed.
C28_EachSolveOnAFreshInstance ==
    \A i, j \in 1..Len(solves) : i # j => solves[i].instance # solves[j].instance


\* C22: whenever a ticker's full-range request produces no data (200 with empty
\* results, a non-200 status, or an exception), the reduced-range requests are
\* attempted for that ticker before it is given up on.
C22_ReducedRangeTriedAfterAnyFailedFullRange ==
    (agg_kind = "polygon") =>
        \A i \in 1..Len(agg_log) :
            (agg_i > i /\ agg_log[i].full = 1 /\ agg_log[i].ok = {}) =>
                agg_log[i].reduced >= 1

\* The last entry of a ticker that got a response with data.
LastOk(i) ==
    /\ agg_log[i].ok # {}
    /\ \A j \in (i + 1)..Len(agg_log) :
          agg_tickers[j] = agg_tickers[i] => agg_log[j].ok = {}

\* C23: get_polygon_history_batch terminates; per ticker it issues at most 1
\* full-range request followed by at most 3 reduced-range requests, none after
\* the first 200 response with results, and the series stored is that
\* response's.
C23_TerminatesWithinOnePlusThreeRequests ==
    /\ [](agg_kind = "polygon" =>
            \A i \in 1..Len(agg_log) :
                /\ agg_log[i].full <= 1
                /\ agg_log[i].reduced <= 3
                /\ agg_log[i].reduced >= 1 => agg_log[i].full = 1
                /\ agg_log[i].after_ok = 0
                /\ LastOk(i) =>
                      /\ agg_tickers[i] \in DOMAIN all_data
                      /\ agg_log[i].ok = {all_data[agg_tickers[i]]})
    /\ (agg_kind = "polygon" /\ agg_pc = "running") ~> (agg_pc = "done")

C23_Witness ==
    /\ agg_kind = "polygon" /\ agg_pc = "done"
    /\ \E i \in 1..Len(agg_log) :
          /\ agg_log[i].full = 1 /\ agg_log[i].reduced = 3
          /\ LastOk(i)

C27_FailedTickerNeverInOptimizedAllocation ==
    (o_pc = "done") =>
        \A t \in SeqToSet(o_response.warning.tickers) :
            \A i \in 1..Len(o_response.optimized_allocation) :
                o_response.optimized_allocation[i].ticker # t


\* A caller that has read last_request_time and has not yet written it back.
InThrottledSection(th) == news_pc[th] \in {"sleeping", "ready", "requesting"}

\* C25: the last-request timestamp is read and updated atomically with respect
\* to concurrent callers of news.get_news, and no two upstream requests start
\* less than the minimum interval apart.
C25_TimestampReadAndUpdatedAtomically ==
    /\ \A th1, th2 \in Callers :
          (th1 # th2) => ~(InThrottledSection(th1) /\ InThrottledSection(th2))
    /\ Len(news_starts) = 2 =>
          news_starts[2] - news_starts[1] >= NEWS_RATE_LIMIT_DELAY


\* C26: /fundamental serves a ticker's cached response for 600 seconds after it
\* was stored and recomputes it only once the entry is at least 600 seconds old.
C26_FundamentalCachedFor600Seconds ==
    /\ (f_served.kind = "cached") => f_served.age < 600
    /\ (f_served.kind \in {"computing", "computed"} /\ f_served.age # NoEntry) =>
          f_served.age >= 600

\* C29: once get_recommendations_cached has computed a result at time t, every
\* call before t + 60 s returns that result without computing again, whatever
\* the result was, and a call at or after t + 60 s computes again.
C29_RecommendationsCachedFor60Seconds ==
    /\ (r_served.kind = "cached") =>
          (r_served.age < 60 /\ r_served.data = r_served.before)
    /\ (r_served.kind \in {"computing", "computed"} /\ r_served.age # NoEntry) =>
          r_served.age >= 60

\* C30: for every completion order and every set of failing tasks,
\* compute_recommendations has, when it prompts, no task left to wait for and
\* one stocks_data entry per ticker of TOP_TICKERS, each with the news its own
\* news task returned ([] when that task raised); it returns at most 3
\* recommendations.
C30_OneEntryPerTickerWithItsNews ==
    (k_pc \in {"prompt", "done"}) =>
        /\ stock_pending = {} /\ news_pending = {}
        /\ DOMAIN news_results = SeqToSet(TOP_TICKERS)
        /\ Len(stocks_data) = Len(TOP_TICKERS)
        /\ \A i \in 1..Len(TOP_TICKERS) :
              Cardinality({j \in 1..Len(stocks_data) :
                              stocks_data[j].ticker = TOP_TICKERS[i]}) = 1
        /\ \A j \in 1..Len(stocks_data) :
              stocks_data[j].news =
                  IF news_results[stocks_data[j].ticker] = "returned"
                  THEN <<"news", stocks_data[j].ticker>> ELSE <<>>
        /\ (k_pc = "done") => Len(k_result) <= 3

C30_Witness ==
    /\ k_pc = "done"
    /\ Len(k_result) = 3
    /\ stocks_data[1].ticker # TOP_TICKERS[1]
    /\ \E t \in DOMAIN news_results : news_results[t] = "raised"
    /\ \E t \in DOMAIN news_results : news_results[t] = "returned"
    /\ \E j \in 1..Len(stocks_data) : ~stocks_data[j].priced

====
